---- MODULE Spec2Model ----
(***************************************************************************)
(* Instruction-level profiler of sQLux-nextp8: the event codec, the        *)
(* call-graph builder (ProfilerData), the buffer pool hand-off between the *)
(* emulator thread and the profiler thread, and the flush protocol.        *)
(*                                                                         *)
(* Event words are 32 bits wide.  Every word built here has a type nibble  *)
(* of at most 6, so all values stay below 2^31 and no wrap-around occurs.  *)
(***************************************************************************)
EXTENDS Integers, Sequences, FiniteSets, TLC

\* ------------------------------------------------------------------ bounds
MaxAddr == 3          \* guest addresses are 0..MaxAddr
MaxOff == 1           \* return offsets are 0..MaxOff
MaxSteps == 4         \* events handed directly to ProcessEvent (SpecData)

BUFFER_SIZE == 2      \* events per buffer (8192 in the source, scaled down)
BUFFER_POOL_SIZE == 2 \* buffers in the pool (16 in the source, scaled down)
MaxEvents == 5        \* events the emulator thread records (Spec)

Addrs == 0..MaxAddr
Offsets == 0..MaxOff
AccessAddrs == {MaxAddr}   \* addresses carried by data-access events

NULL == -1            \* nullptr
NullPtr == [buf |-> NULL, off |-> 0]   \* a null uint32_t*

\* ------------------------------------------------------------- event codec
INSTR_EXECUTE == 0
JUMP == 1
CALL == 2
RETURN == 3
DATA_READ == 4
DATA_WRITE == 5
INSTR_READ == 6

Pow2_24 == 16777216
Pow2_28 == 268435456

RECURSIVE BitOr(_, _)
BitOr(a, b) ==
    IF a = 0 THEN b
    ELSE IF b = 0 THEN a
    ELSE (IF a % 2 = 1 \/ b % 2 = 1 THEN 1 ELSE 0) + 2 * BitOr(a \div 2, b \div 2)

\* address & 0xffffff
MaskAddress(address) == address % Pow2_24

\* the word each Profiler_Record* function stores through the cursor
RecordInstructionExecuteWord(address) == BitOr(MaskAddress(address), 0)
RecordJumpWord(address) == BitOr(MaskAddress(address), 1 * Pow2_28)
RecordCallWord(address, return_offset) ==
    BitOr(BitOr(MaskAddress(address), 2 * Pow2_28), return_offset * Pow2_24)
RecordReturnWord(address) == BitOr(MaskAddress(address), 3 * Pow2_28)
RecordDataReadWord(address) == BitOr(MaskAddress(address), 4 * Pow2_28)
RecordDataWriteWord(address) == BitOr(MaskAddress(address), 5 * Pow2_28)
RecordInstrReadWord(address) == BitOr(MaskAddress(address), 6 * Pow2_28)

GetEventType(event) == (event \div Pow2_28) % 16
\* GetReturnOffset reading the type nibble
GetReturnOffset_TypeNibble(event) == (event \div Pow2_28) % 16

GetReturnOffset(event) == (event \div Pow2_24) % 16
GetEventAddress(event) == event % Pow2_24

\* (static_cast<uint32_t>(type) << 24) | (address & 0x00FFFFFF)
MakeEvent(type, address) == BitOr(type * Pow2_24, MaskAddress(address))

\* ------------------------------------------------------------ ProfilerData
EmptyMap == [x \in {} |-> 0]

NewCallInfo ==
    [call_count |-> 0, inclusive_instructions |-> 0, inclusive_instr_fetches |-> 0,
     inclusive_data_reads |-> 0, inclusive_data_writes |-> 0]

NewInstructionCost ==
    [self_cost |-> 0, instr_fetches |-> 0, data_reads |-> 0, data_writes |-> 0,
     calls |-> EmptyMap, jumps |-> EmptyMap]

\* std::map::operator[]: the map with key k present (default-constructed if new)
Index(m, k, dflt) ==
    IF k \in DOMAIN m THEN m
    ELSE [x \in (DOMAIN m) \cup {k} |-> IF x = k THEN dflt ELSE m[x]]

\* CallFrame(addr, caller, ret_addr, ci): call_info is a reference to
\* instruction_costs_[src].calls[tgt], held here as the key <<src, tgt>>;
\* jump_refs maps (source, target) to a reference to
\* instruction_costs_[source].jumps[target], held as the set of its keys.
CallFrame(addr, caller, ret_addr, ci) ==
    [address |-> addr, caller_pc |-> caller, return_address |-> ret_addr,
     call_info |-> ci, jump_refs |-> {}]

NewProfilerData ==
    [instruction_costs |-> EmptyMap, call_stack |-> << >>,
     current_pc |-> 0, total_instructions |-> 0]

Clear(d) == NewProfilerData

\* instruction_costs_[src].calls[tgt] / .jumps[tgt] brought into existence
WithCall(costs, src, tgt) ==
    LET c == Index(costs, src, NewInstructionCost)
    IN  [c EXCEPT ![src].calls = Index(c[src].calls, tgt, NewCallInfo)]

WithJump(costs, src, tgt) ==
    LET c == Index(costs, src, NewInstructionCost)
    IN  [c EXCEPT ![src].jumps = Index(c[src].jumps, tgt, NewCallInfo)]

\* one frame's share of the propagation loop without its jump_refs
IncFrame_CallOnly(costs, frame, field) ==
    [costs EXCEPT ![frame.call_info[1]].calls[frame.call_info[2]][field] = @ + 1]

\* one frame's share of the propagation loop: its call_info counter and the
\* counter of every jump edge in its jump_refs go up by one
IncFrame(costs, frame, field) ==
    LET ci == frame.call_info
        c1 == [costs EXCEPT ![ci[1]].calls[ci[2]][field] = @ + 1]
    IN  [a \in DOMAIN c1 |->
            [c1[a] EXCEPT !.jumps =
                [t \in DOMAIN c1[a].jumps |->
                    IF <<a, t>> \in frame.jump_refs
                    THEN [c1[a].jumps[t] EXCEPT ![field] = @ + 1]
                    ELSE c1[a].jumps[t]]]]

\* for (auto& frame : call_stack_) ...
RECURSIVE IncAllFrames(_, _, _, _)
IncAllFrames(costs, stack, i, field) ==
    IF i > Len(stack) THEN costs
    ELSE IncAllFrames(IncFrame(costs, stack[i], field), stack, i + 1, field)

\* ProcessInstructionExecute without total_instructions_++
ProcessInstructionExecute_NoTotal(d, address) ==
    LET c0 == Index(d.instruction_costs, address, NewInstructionCost)
        c1 == [c0 EXCEPT ![address].self_cost = @ + 1]
        c2 == IF d.call_stack = << >>
              THEN LET w == WithCall(c1, 0, address)
                   IN  [w EXCEPT ![0].calls[address].call_count = @ + 1]
              ELSE c1
        stack == IF d.call_stack = << >>
                 THEN << CallFrame(address, 0, 0, <<0, address>>) >>
                 ELSE d.call_stack
    IN  [instruction_costs |-> IncAllFrames(c2, stack, 1, "inclusive_instructions"),
         call_stack |-> stack,
         current_pc |-> address,
         total_instructions |-> d.total_instructions]

\* ProcessInstructionExecute propagating inclusive costs before the top-level
\* frame is synthesized
ProcessInstructionExecute_PropagateFirst(d, address) ==
    LET c0 == Index(d.instruction_costs, address, NewInstructionCost)
        c1 == [c0 EXCEPT ![address].self_cost = @ + 1]
        c2 == IncAllFrames(c1, d.call_stack, 1, "inclusive_instructions")
        c3 == IF d.call_stack = << >>
              THEN LET w == WithCall(c2, 0, address)
                   IN  [w EXCEPT ![0].calls[address].call_count = @ + 1]
              ELSE c2
        stack == IF d.call_stack = << >>
                 THEN << CallFrame(address, 0, 0, <<0, address>>) >>
                 ELSE d.call_stack
    IN  [instruction_costs |-> c3,
         call_stack |-> stack,
         current_pc |-> address,
         total_instructions |-> d.total_instructions + 1]

ProcessInstructionExecute(d, address) ==
    LET c0 == Index(d.instruction_costs, address, NewInstructionCost)
        c1 == [c0 EXCEPT ![address].self_cost = @ + 1]
        total == d.total_instructions + 1
        c2 == IF d.call_stack = << >>
              THEN LET w == WithCall(c1, 0, address)
                   IN  [w EXCEPT ![0].calls[address].call_count = @ + 1]
              ELSE c1
        stack == IF d.call_stack = << >>
                 THEN << CallFrame(address, 0, 0, <<0, address>>) >>
                 ELSE d.call_stack
    IN  [instruction_costs |-> IncAllFrames(c2, stack, 1, "inclusive_instructions"),
         call_stack |-> stack,
         current_pc |-> address,
         total_instructions |-> total]

\* ProcessJump charging one instruction to the jump edge itself
ProcessJump_Charged(d, address) ==
    LET pc == d.current_pc
        w == WithJump(d.instruction_costs, pc, address)
        c1 == [w EXCEPT ![pc].jumps[address].call_count = @ + 1,
                        ![pc].jumps[address].inclusive_instructions = @ + 1]
        n == Len(d.call_stack)
        stack == IF n > 0
                 THEN [d.call_stack EXCEPT ![n].jump_refs = @ \cup {<<pc, address>>}]
                 ELSE d.call_stack
    IN  [d EXCEPT !.instruction_costs = c1, !.call_stack = stack, !.current_pc = address]

\* ProcessJump adding the jump reference to every frame
ProcessJump_AllFrames(d, address) ==
    LET pc == d.current_pc
        w == WithJump(d.instruction_costs, pc, address)
        c1 == [w EXCEPT ![pc].jumps[address].call_count = @ + 1]
        stack == [i \in 1..Len(d.call_stack) |->
                     [d.call_stack[i] EXCEPT !.jump_refs = @ \cup {<<pc, address>>}]]
    IN  [d EXCEPT !.instruction_costs = c1, !.call_stack = stack, !.current_pc = address]

ProcessJump(d, address) ==
    LET pc == d.current_pc
        w == WithJump(d.instruction_costs, pc, address)
        c1 == [w EXCEPT ![pc].jumps[address].call_count = @ + 1]
        n == Len(d.call_stack)
        stack == IF n > 0
                 THEN [d.call_stack EXCEPT ![n].jump_refs = @ \cup {<<pc, address>>}]
                 ELSE d.call_stack
    IN  [d EXCEPT !.instruction_costs = c1, !.call_stack = stack, !.current_pc = address]

\* ProcessCall ignoring the return offset
ProcessCall_NoOffset(d, address, return_offset) ==
    LET pc == d.current_pc
        w == WithCall(d.instruction_costs, pc, address)
        c1 == IF pc # 0 THEN [w EXCEPT ![pc].calls[address].call_count = @ + 1] ELSE w
    IN  [d EXCEPT !.instruction_costs = c1,
                  !.call_stack = Append(@, CallFrame(address, pc, pc + 2, <<pc, address>>)),
                  !.current_pc = address]

ProcessCall(d, address, return_offset) ==
    LET pc == d.current_pc
        w == WithCall(d.instruction_costs, pc, address)
        c1 == IF pc # 0 THEN [w EXCEPT ![pc].calls[address].call_count = @ + 1] ELSE w
    IN  [d EXCEPT !.instruction_costs = c1,
                  !.call_stack = Append(@, CallFrame(address, pc, pc + 2 + return_offset,
                                                     <<pc, address>>)),
                  !.current_pc = address]

\* the search of the longjmp branch run from the bottom of the stack: the
\* smallest matching index
FindReturn_Outermost(stack, address, i) ==
    IF \E j \in 1..i : stack[j].return_address = address
    THEN CHOOSE j \in 1..i : /\ stack[j].return_address = address
                            /\ \A k \in 1..(j - 1) : stack[k].return_address # address
    ELSE 0

\* the backwards search of the longjmp branch: the largest i <= n with
\* call_stack_[i].return_address == address, or 0 when there is none
RECURSIVE FindReturn(_, _, _)
FindReturn(stack, address, i) ==
    IF i = 0 THEN 0
    ELSE IF stack[i].return_address = address THEN i
    ELSE FindReturn(stack, address, i - 1)

\* ProcessReturn whose longjmp branch pops the top frame only
ProcessReturn_PopOne(d, address) ==
    LET n == Len(d.call_stack)
    IN  IF n = 0 THEN [d EXCEPT !.current_pc = address]
        ELSE IF d.call_stack[n].return_address = address
        THEN [d EXCEPT !.call_stack = SubSeq(@, 1, n - 1), !.current_pc = address]
        ELSE LET i == FindReturn(d.call_stack, address, n)
             IN  IF i > 0
                 THEN [d EXCEPT !.call_stack = SubSeq(@, 1, n - 1), !.current_pc = address]
                 ELSE [d EXCEPT !.call_stack = << >>, !.current_pc = address]

\* ProcessReturn leaving the stack alone when no frame matches
ProcessReturn_KeepOnMismatch(d, address) ==
    LET n == Len(d.call_stack)
    IN  IF n = 0 THEN [d EXCEPT !.current_pc = address]
        ELSE IF d.call_stack[n].return_address = address
        THEN [d EXCEPT !.call_stack = SubSeq(@, 1, n - 1), !.current_pc = address]
        ELSE LET i == FindReturn(d.call_stack, address, n)
             IN  IF i > 0
                 THEN [d EXCEPT !.call_stack = SubSeq(@, 1, i - 1), !.current_pc = address]
                 ELSE [d EXCEPT !.current_pc = address]

ProcessReturn(d, address) ==
    LET n == Len(d.call_stack)
    IN  IF n = 0 THEN [d EXCEPT !.current_pc = address]
        ELSE IF d.call_stack[n].return_address = address
        THEN [d EXCEPT !.call_stack = SubSeq(@, 1, n - 1), !.current_pc = address]
        ELSE LET i == FindReturn(d.call_stack, address, n)
             IN  IF i > 0
                 THEN [d EXCEPT !.call_stack = SubSeq(@, 1, i - 1), !.current_pc = address]
                 ELSE [d EXCEPT !.call_stack = << >>, !.current_pc = address]

\* the common body without the test current_pc_ != 0
ProcessAccess_RootCounted(d, self_field, incl_field) ==
    LET pc == d.current_pc
        c0 == Index(d.instruction_costs, pc, NewInstructionCost)
        c1 == [c0 EXCEPT ![pc][self_field] = @ + 1]
    IN  [d EXCEPT !.instruction_costs = IncAllFrames(c1, d.call_stack, 1, incl_field)]

\* common body of ProcessDataRead / ProcessDataWrite / ProcessInstrRead
ProcessAccess(d, self_field, incl_field) ==
    LET pc == d.current_pc
        c1 == IF pc # 0
              THEN LET c0 == Index(d.instruction_costs, pc, NewInstructionCost)
                   IN  [c0 EXCEPT ![pc][self_field] = @ + 1]
              ELSE d.instruction_costs
    IN  [d EXCEPT !.instruction_costs = IncAllFrames(c1, d.call_stack, 1, incl_field)]

ProcessDataRead(d, address) == ProcessAccess(d, "data_reads", "inclusive_data_reads")
ProcessDataWrite(d, address) == ProcessAccess(d, "data_writes", "inclusive_data_writes")
ProcessInstrRead(d, address) == ProcessAccess(d, "instr_fetches", "inclusive_instr_fetches")

ProcessEvent(d, event) ==
    LET type == GetEventType(event)
        address == GetEventAddress(event)
    IN  CASE type = INSTR_EXECUTE -> ProcessInstructionExecute(d, address)
          [] type = JUMP -> ProcessJump(d, address)
          [] type = CALL -> ProcessCall(d, address, GetReturnOffset(event))
          [] type = RETURN -> ProcessReturn(d, address)
          [] type = DATA_READ -> ProcessDataRead(d, address)
          [] type = DATA_WRITE -> ProcessDataWrite(d, address)
          [] type = INSTR_READ -> ProcessInstrRead(d, address)
          [] OTHER -> d

\* Finalize creating the entry of a synthetic root at address 0
Finalize_SyntheticRoot(d) ==
    [d EXCEPT !.instruction_costs = Index(@, 0, NewInstructionCost)]

\* Finalize discarding the collected costs
Finalize_Clear(d) == NewProfilerData

Finalize(d) == d

\* ----------------------------------------------------- ConvertToGroupedData
END_IT == -3          \* std::set::end()

Min(S) == CHOOSE x \in S : \A y \in S : x <= y
Max(S) == CHOOSE x \in S : \A y \in S : y <= x

\* std::set::upper_bound / lower_bound: the first element > x (>= x), or end()
upper_bound(S, x) ==
    LET g == {e \in S : e > x} IN IF g = {} THEN END_IT ELSE Min(g)

lower_bound(S, x) ==
    LET g == {e \in S : e >= x} IN IF g = {} THEN END_IT ELSE Min(g)

\* the elements of a std::set / the keys of a std::map in iteration order
RECURSIVE SortedSeq(_)
SortedSeq(S) ==
    IF S = {} THEN << >> ELSE << Min(S) >> \o SortedSeq(S \ {Min(S)})

\* "Add call targets": every key of every calls map
CallTargets(costs) == UNION {DOMAIN costs[a].calls : a \in DOMAIN costs}

\* the test `lower != upper` of the jump loop
CrossesEntry(function_entries, source_addr, target_addr) ==
    LET min_addr == IF source_addr < target_addr THEN source_addr ELSE target_addr
        max_addr == IF source_addr < target_addr THEN target_addr ELSE source_addr
    IN  upper_bound(function_entries, min_addr) # lower_bound(function_entries, max_addr)

\* the (source, target) pairs the jump loop visits, and the order it visits
\* them in: ascending source, then ascending target
JumpPairs(costs) == UNION {{<<a, t>> : t \in DOMAIN costs[a].jumps} : a \in DOMAIN costs}

PairLess(p, q) == p[1] < q[1] \/ (p[1] = q[1] /\ p[2] < q[2])

\* the jump loop over the pairs not yet visited: one pass, each jump tested
\* against the entries inserted so far
RECURSIVE JumpPass(_, _)
JumpPass(pairs, st) ==
    IF pairs = {} THEN st
    ELSE LET p == CHOOSE x \in pairs : \A y \in pairs \ {x} : PairLess(x, y)
         IN  JumpPass(pairs \ {p},
                      IF CrossesEntry(st.function_entries, p[1], p[2])
                      THEN [function_entries |-> st.function_entries \cup {p[2]},
                            cross_boundary_jumps |-> st.cross_boundary_jumps \cup {p}]
                      ELSE st)

\* function_entries and cross_boundary_jumps as they stand after both loops
CollectEntries(costs) ==
    JumpPass(JumpPairs(costs),
             [function_entries |-> CallTargets(costs), cross_boundary_jumps |-> {}])

\* instruction_to_function taking the first entry above the address
InstructionToFunction_NoDecrement(function_entries, address) ==
    LET it == upper_bound(function_entries, address)
    IN  IF it # END_IT THEN it ELSE address

\* instruction_to_function taking the smallest entry <= address
InstructionToFunction_Smallest(function_entries, address) ==
    LET le == {e \in function_entries : e <= address}
    IN  IF le # {} THEN Min(le) ELSE address

\* instruction_to_function[address]: the largest entry <= address, else the
\* address itself
InstructionToFunction(function_entries, address) ==
    LET le == {e \in function_entries : e <= address}
    IN  IF le # {} THEN Max(le) ELSE address

\* FunctionCall taking the call count only and leaving the inclusive costs 0
MakeFunctionCall_CountOnly(addr, target_func, info) ==
    [caller_address |-> addr, target_function |-> target_func,
     call_count |-> info.call_count,
     inclusive_instructions |-> 0,
     inclusive_instr_fetches |-> 0,
     inclusive_data_reads |-> 0,
     inclusive_data_writes |-> 0]

\* FunctionCall fc filled from a CallInfo
MakeFunctionCall(addr, target_func, info) ==
    [caller_address |-> addr, target_function |-> target_func,
     call_count |-> info.call_count,
     inclusive_instructions |-> info.inclusive_instructions,
     inclusive_instr_fetches |-> info.inclusive_instr_fetches,
     inclusive_data_reads |-> info.inclusive_data_reads,
     inclusive_data_writes |-> info.inclusive_data_writes]

\* "Process calls from this instruction" without the lookup guard: a target
\* that is no key of instruction_to_function is taken as its own function
CallsOf_Unguarded(costs, i2f, addr) ==
    LET ts == SortedSeq(DOMAIN costs[addr].calls)
    IN  [k \in 1..Len(ts) |->
            MakeFunctionCall(addr, IF ts[k] \in DOMAIN i2f THEN i2f[ts[k]] ELSE ts[k],
                             costs[addr].calls[ts[k]])]

\* "Process calls from this instruction": one FunctionCall per call edge
\* whose target is a key of instruction_to_function
CallsOf(costs, i2f, addr) ==
    LET Known(t) == t \in DOMAIN i2f
        ts == SelectSeq(SortedSeq(DOMAIN costs[addr].calls), Known)
    IN  [k \in 1..Len(ts) |-> MakeFunctionCall(addr, i2f[ts[k]], costs[addr].calls[ts[k]])]

\* "Process jumps from this instruction": one FunctionCall per jump edge in
\* cross_boundary_jumps whose target is a key of instruction_to_function
SynthesizedCallsOf(costs, i2f, cross, addr) ==
    LET Kept(t) == <<addr, t>> \in cross /\ t \in DOMAIN i2f
        ts == SelectSeq(SortedSeq(DOMAIN costs[addr].jumps), Kept)
    IN  [k \in 1..Len(ts) |-> MakeFunctionCall(addr, i2f[ts[k]], costs[addr].jumps[ts[k]])]

\* func.calls after the instructions addrs[i..] have been added
RECURSIVE FunctionCalls(_, _, _, _, _)
FunctionCalls(costs, i2f, cross, addrs, i) ==
    IF i > Len(addrs) THEN << >>
    ELSE CallsOf(costs, i2f, addrs[i]) \o SynthesizedCallsOf(costs, i2f, cross, addrs[i])
             \o FunctionCalls(costs, i2f, cross, addrs, i + 1)

\* the accumulation counting instruction fetches as self instructions
Accumulate_Fetches(instructions, field, i) ==
    IF instructions = << >> THEN 0
    ELSE LET a == [k \in 1..Len(instructions) |->
                      IF field = "self_cost" THEN instructions[k].cost.instr_fetches
                      ELSE instructions[k].cost[field]]
             sum[k \in 0..Len(a)] == IF k = 0 THEN 0 ELSE sum[k - 1] + a[k]
         IN  sum[Len(a)]

\* func.total_self_* += cost.<field> over instructions[i..]
RECURSIVE Accumulate(_, _, _)
Accumulate(instructions, field, i) ==
    IF i > Len(instructions) THEN 0
    ELSE instructions[i].cost[field] + Accumulate(instructions, field, i + 1)

\* temp_functions[func_addr] holding every table address at or above the entry
TempFunction_Above(costs, i2f, func_addr) ==
    SortedSeq({a \in DOMAIN costs : a >= func_addr})

\* the addresses of temp_functions[func_addr], in the order they were pushed
TempFunction(costs, i2f, func_addr) ==
    SortedSeq({a \in DOMAIN costs : i2f[a] = func_addr})

\* the GroupedFunction built from temp_functions[func_addr]
BuildFunction(costs, i2f, cross, func_addr) ==
    LET addrs == TempFunction(costs, i2f, func_addr)
        instructions == [k \in 1..Len(addrs) |-> [address |-> addrs[k], cost |-> costs[addrs[k]]]]
    IN  [entry_address |-> func_addr,
         instructions |-> instructions,
         calls |-> FunctionCalls(costs, i2f, cross, addrs, 1),
         total_self_instructions |-> Accumulate(instructions, "self_cost", 1),
         total_self_instr_fetches |-> Accumulate(instructions, "instr_fetches", 1),
         total_self_data_reads |-> Accumulate(instructions, "data_reads", 1),
         total_self_data_writes |-> Accumulate(instructions, "data_writes", 1)]

\* GroupedProfilerData::GroupedProfilerData
NewGroupedProfilerData ==
    [functions |-> EmptyMap, entry_points |-> {}, total_instructions |-> 0]

ConvertToGroupedData(d) ==
    LET grouped == [NewGroupedProfilerData EXCEPT !.total_instructions = d.total_instructions]
        costs == d.instruction_costs
    IN  IF DOMAIN costs = {} THEN grouped
        ELSE LET st == CollectEntries(costs)
                 i2f == [a \in DOMAIN costs |-> InstructionToFunction(st.function_entries, a)]
             IN  [grouped EXCEPT !.functions =
                     [f \in {i2f[a] : a \in DOMAIN costs} |->
                         BuildFunction(costs, i2f, st.cross_boundary_jumps, f)]]

GetFunctions(g) == g.functions
GetEntryPoints(g) == g.entry_points

\* ------------------------------------------------------ CallgrindSerializer
\* the file is a sequence of lines; a line is a record of its fixed text
\* and of the numbers printed in it (mode "0x": printed in hex after 0x)
TextLine(t) == [kind |-> "text", text |-> t]
BlankLine == TextLine("")

\* Cycles leaving the instruction fetches out
Cycles_NoFetches(instructions, instr_fetches, data_reads, data_writes) ==
    instructions + (data_reads * 3) + (data_writes * 3)

\* Cycles = Instructions + InstructionFetch * 3 + DataReads * 3 + DataWrites * 3
Cycles(instructions, instr_fetches, data_reads, data_writes) ==
    instructions + (instr_fetches * 3) + (data_reads * 3) + (data_writes * 3)

\* the position field of a self-cost line
WritePosition(last_address, address) ==
    IF last_address = 0
    THEN [mode |-> "0x", value |-> address]
    ELSE LET diff == address - last_address
         IN  IF diff > 0 /\ diff <= 1000 THEN [mode |-> "+", value |-> diff]
             ELSE IF diff < 0 /\ diff >= -1000 THEN [mode |-> "-", value |-> -diff]
             ELSE IF diff = 0 THEN [mode |-> "*", value |-> 0]
             ELSE [mode |-> "0x", value |-> address]

\* the lines of one FunctionCall with the caller line written relative to
\* the address written before it, which is the caller address itself
WriteCall_Relative(call) ==
    << [kind |-> "cfn", hex |-> call.target_function],
       [kind |-> "calls", count |-> call.call_count, hex |-> call.target_function],
       [kind |-> "cost",
        position |-> [mode |-> "*", value |-> 0],
        values |-> << Cycles(call.inclusive_instructions, call.inclusive_instr_fetches,
                             call.inclusive_data_reads, call.inclusive_data_writes),
                      call.inclusive_instructions,
                      call.inclusive_data_reads,
                      call.inclusive_data_writes >>] >>

\* the cfn= line, the calls= line and the cost line of one FunctionCall
WriteCall(call) ==
    << [kind |-> "cfn", hex |-> call.target_function],
       [kind |-> "calls", count |-> call.call_count, hex |-> call.target_function],
       [kind |-> "cost",
        position |-> [mode |-> "0x", value |-> call.caller_address],
        values |-> << Cycles(call.inclusive_instructions, call.inclusive_instr_fetches,
                             call.inclusive_data_reads, call.inclusive_data_writes),
                      call.inclusive_instructions,
                      call.inclusive_data_reads,
                      call.inclusive_data_writes >>] >>

\* the loop over the calls of an address stopping after the first call
WriteCalls_FirstOnly(calls, i) ==
    IF i > Len(calls) THEN << >> ELSE WriteCall(calls[i])

RECURSIVE WriteCalls(_, _)
WriteCalls(calls, i) ==
    IF i > Len(calls) THEN << >>
    ELSE WriteCall(calls[i]) \o WriteCalls(calls, i + 1)

\* the loop over func.instructions from index i on, entered with last_address
RECURSIVE WriteInstructions(_, _, _)
WriteInstructions(func, i, last_address) ==
    IF i > Len(func.instructions) THEN << >>
    ELSE LET address == func.instructions[i].address
             cost == func.instructions[i].cost
             AtAddress(call) == call.caller_address = address
             calls == SelectSeq(func.calls, AtAddress)
             last == IF calls = << >> THEN address ELSE calls[Len(calls)].caller_address
         IN  << [kind |-> "cost",
                 position |-> WritePosition(last_address, address),
                 values |-> << Cycles(cost.self_cost, cost.instr_fetches,
                                      cost.data_reads, cost.data_writes),
                               cost.self_cost, cost.data_reads, cost.data_writes >>] >>
             \o WriteCalls(calls, 1)
             \o WriteInstructions(func, i + 1, last)

\* one fn= block
WriteFunction(func) ==
    << [kind |-> "fn", hex |-> func.entry_address] >>
    \o WriteInstructions(func, 1, 0)
    \o << BlankLine >>

\* "Calculate totals across all functions": the sum of one total_self_ field
\* over the functions keyed in S
RECURSIVE TotalOver(_, _, _)
TotalOver(functions, field, S) ==
    IF S = {} THEN 0
    ELSE functions[Min(S)][field] + TotalOver(functions, field, S \ {Min(S)})

WriteHeader(g) ==
    LET functions == GetFunctions(g)
        total_instructions == TotalOver(functions, "total_self_instructions", DOMAIN functions)
        total_instr_fetches == TotalOver(functions, "total_self_instr_fetches", DOMAIN functions)
        total_data_reads == TotalOver(functions, "total_self_data_reads", DOMAIN functions)
        total_data_writes == TotalOver(functions, "total_self_data_writes", DOMAIN functions)
        total_cycles == Cycles(total_instructions, total_instr_fetches,
                               total_data_reads, total_data_writes)
    IN  << TextLine("# callgrind format"),
           TextLine("version: 1"),
           TextLine("creator: sqlux-profiler"),
           TextLine("cmd: sqlux"),
           BlankLine,
           TextLine("positions: instr"),
           TextLine("events: Cycles Instructions DataReads DataWrites"),
           [kind |-> "summary",
            values |-> << total_cycles, total_instructions,
                          total_data_reads, total_data_writes >>],
           BlankLine >>

\* the loop over the functions map, in ascending key order, from the keys S on
RECURSIVE WriteFunctions(_, _)
WriteFunctions(functions, S) ==
    IF S = {} THEN << >>
    ELSE WriteFunction(functions[Min(S)]) \o WriteFunctions(functions, S \ {Min(S)})

WriteBody(g) == WriteFunctions(GetFunctions(g), DOMAIN GetFunctions(g))

\* the lines of the file when it could be opened
WriteToFile(g) == WriteHeader(g) \o WriteBody(g)

\* ------------------------------------------------------------------- state
VARIABLES
    data,          \* ProfilerData (ProfilerThread::data_)
    last_event,    \* the word most recently handed to ProcessEvent (NULL: none)
    nsteps,        \* number of words handed to ProcessEvent so far
    running,       \* ProfilerThread::running_
    should_flush,  \* ProfilerThread::should_flush_
    warned,        \* the static flag of GetEmptyBuffer
    filled_buffers,\* ProfilerThread::filled_buffers_ (buffer indices)
    empty_buffers, \* ProfilerThread::empty_buffers_
    buffer_pool,   \* ProfilerThread::buffer_pool_: [events, count] per buffer
    current_buffer,\* ClientBufferManager::current_buffer_
    profiler_current_buffer_ptr, \* [buf, off]: events + off of buffer buf, or NullPtr
    profiler_buffer_end_ptr,     \* likewise
    pc_main,       \* position of the emulator (main) thread
    stop_call,     \* which call of Stop the main thread is in (1: ShutdownProfiler, 2: destructor)
    pc_cons,       \* position of the profiler thread in ThreadFunc
    cons_buffer,   \* ThreadFunc's local `buffer`
    cons_i,        \* ProcessBuffer's loop index
    flushing,      \* threads inside FlushToFile (holding output_mutex_)
    file,          \* what the last successful WriteToFile serialized (NoFile: nothing yet)
    recorded,      \* history: words stored by the Profiler_Record* functions
    pushed,        \* history: words of the buffers handed to PushFilledBuffer
    pushed_before_stop, \* history: `pushed` when Stop cleared running_ (NULL before)
    processed,     \* history: words the profiler thread handed to ProcessEvent
    switch_calls,  \* history: calls of Profiler_SwitchBuffer
    stop_flushes,  \* history: FlushToFile calls made by Stop
    flush_pending, \* history: Flush() was called while running and no FlushToFile has completed since
    codec_in,      \* the arguments [type, address, return_offset] given to a Profiler_Record* encoder
    codec_word,    \* the word that encoder stored (NULL: none yet)
    write_failed,  \* history: the last WriteToFile returned false
    pc_stop,       \* position of a second thread that calls ProfilerThread::Stop
    pc_sig         \* position of the signal handler; "terminated": the process was killed

dataVars == <<data, last_event, nsteps>>
flagVars == <<running, should_flush, warned>>
queueVars == <<filled_buffers, empty_buffers>>
clientVars == <<current_buffer, profiler_current_buffer_ptr, profiler_buffer_end_ptr>>
consVars == <<pc_cons, cons_buffer, cons_i>>
flushVars == <<flushing, file, stop_flushes, flush_pending, write_failed>>
histVars == <<recorded, pushed, pushed_before_stop, processed, switch_calls>>
pipeVars == <<flagVars, queueVars, buffer_pool, clientVars, pc_main, stop_call,
              consVars, flushVars, histVars, pc_stop, pc_sig>>
codecVars == <<codec_in, codec_word>>
vars == <<dataVars, pipeVars, codecVars>>

Buffers == 1..BUFFER_POOL_SIZE
NoFile == [instruction_costs |-> EmptyMap, total_instructions |-> NULL]
UNINIT == -2          \* an events[] slot nothing has been stored in
NoInput == [type |-> NULL, address |-> NULL, return_offset |-> NULL]

\* the state before Profiler_Initialize: a fresh ProfilerData, no threads
InitProfiler ==
    /\ data = NewProfilerData
    /\ last_event = NULL
    /\ nsteps = 0
    /\ running = FALSE
    /\ should_flush = FALSE
    /\ warned = FALSE
    /\ filled_buffers = << >>
    /\ empty_buffers = << >>
    /\ buffer_pool = [b \in Buffers |-> [events |-> [i \in 1..BUFFER_SIZE |-> UNINIT], count |-> 0]]
    /\ current_buffer = NULL
    /\ profiler_current_buffer_ptr = NullPtr
    /\ profiler_buffer_end_ptr = NullPtr
    /\ pc_main = "off"
    /\ stop_call = 0
    /\ pc_cons = "idle"
    /\ cons_buffer = NULL
    /\ cons_i = 0
    /\ flushing = {}
    /\ file = NoFile
    /\ recorded = << >>
    /\ pushed = << >>
    /\ pushed_before_stop = NULL
    /\ processed = << >>
    /\ switch_calls = 0
    /\ stop_flushes = 0
    /\ flush_pending = FALSE
    /\ write_failed = FALSE
    /\ pc_stop = "idle"
    /\ pc_sig = "idle"

Init ==
    /\ InitProfiler
    /\ codec_in = NoInput
    /\ codec_word = NULL

\* ---------------------------------------- ProfilerData driven word by word
Feed(event) ==
    /\ nsteps < MaxSteps
    /\ data' = ProcessEvent(data, event)
    /\ last_event' = event
    /\ nsteps' = nsteps + 1
    /\ UNCHANGED <<pipeVars, codecVars>>

FeedInstructionExecute == \E a \in Addrs : Feed(RecordInstructionExecuteWord(a))
FeedJump == \E a \in Addrs : Feed(RecordJumpWord(a))
FeedCall == \E a \in Addrs, off \in Offsets : Feed(RecordCallWord(a, off))
FeedReturn == \E a \in Addrs : Feed(RecordReturnWord(a))
FeedDataRead == \E a \in AccessAddrs : Feed(RecordDataReadWord(a))
FeedDataWrite == \E a \in AccessAddrs : Feed(RecordDataWriteWord(a))
FeedInstrRead == \E a \in AccessAddrs : Feed(RecordInstrReadWord(a))
FeedClear ==
    /\ nsteps < MaxSteps
    /\ data' = Clear(data)
    /\ last_event' = NULL
    /\ nsteps' = nsteps + 1
    /\ UNCHANGED <<pipeVars, codecVars>>

NextData ==
    \/ FeedInstructionExecute
    \/ FeedJump
    \/ FeedCall
    \/ FeedReturn
    \/ FeedDataRead
    \/ FeedDataWrite
    \/ FeedInstrRead
    \/ FeedClear

SpecData == Init /\ [][NextData]_vars

\* the same driver with every Call carrying return offset 0: the cost
\* tables handed to ConvertToGroupedData and the serializer
FeedCallPlain == \E a \in Addrs : Feed(RecordCallWord(a, 0))

NextGrouped ==
    \/ FeedInstructionExecute
    \/ FeedJump
    \/ FeedCallPlain
    \/ FeedReturn
    \/ FeedDataRead
    \/ FeedDataWrite
    \/ FeedInstrRead
    \/ FeedClear

SpecGrouped == Init /\ [][NextGrouped]_vars

\* ----------------------------------------------------- the buffer pipeline
\* The words of a buffer that count says are valid
BufferWords(pool, b) == SubSeq([i \in 1..BUFFER_SIZE |-> pool[b].events[i]], 1, pool[b].count)

\* the emulator's input: the words it may record
PipeWords == {RecordInstructionExecuteWord(1), RecordCallWord(2, 0)}

\* cv.notify_*() on empty_cv_: a thread blocked in empty_cv_.wait leaves the wait
\* a notification that wakes nobody
NotifyEmpty_Lost(p) == p

NotifyEmpty(p) == IF p = "ge_blocked" THEN "get_empty" ELSE p

\* Profiler_Initialize: InitializeProfiler (new ProfilerThread, Start, which
\* runs InitializeEmptyBuffers and spawns ThreadFunc), then InitializeClient
\* (ClientBufferManager takes the first empty buffer, UpdateGlobalPointers)
Profiler_Initialize ==
    /\ pc_main = "off"
    /\ running' = TRUE
    /\ should_flush' = FALSE
    /\ buffer_pool' = [b \in Buffers |-> [buffer_pool[b] EXCEPT !.count = 0]]
    /\ empty_buffers' = [i \in 1..(BUFFER_POOL_SIZE - 1) |-> i + 1]
    /\ filled_buffers' = filled_buffers
    /\ current_buffer' = 1
    /\ profiler_current_buffer_ptr' = [buf |-> 1, off |-> 0]
    /\ profiler_buffer_end_ptr' = [buf |-> 1, off |-> BUFFER_SIZE]
    /\ pc_cons' = "loop"
    /\ pc_main' = "run"
    /\ UNCHANGED <<codecVars, pc_sig, pc_stop, dataVars, warned, stop_call, cons_buffer, cons_i, flushVars, histVars>>

\* Profiler_Record*: store the word through the cursor, advance it, and call
\* Profiler_SwitchBuffer when it reaches the end pointer
\* the end test taken one slot early
RecordAtEnd_Early(ptr, end) == ptr.buf = end.buf /\ ptr.off + 1 = end.off

\* the end test never succeeding
RecordAtEnd_Never(ptr, end) == FALSE

RecordAtEnd(ptr, end) == ptr = end

Profiler_Record(word) ==
    /\ pc_main = "run"
    /\ Len(recorded) < MaxEvents
    /\ LET p == profiler_current_buffer_ptr
           q == [p EXCEPT !.off = @ + 1]
       IN  /\ buffer_pool' = [buffer_pool EXCEPT ![p.buf].events[p.off + 1] = word]
           /\ profiler_current_buffer_ptr' = q
           /\ IF RecordAtEnd(q, profiler_buffer_end_ptr)
              THEN pc_main' = "switch" /\ switch_calls' = switch_calls + 1
              ELSE pc_main' = "run" /\ switch_calls' = switch_calls
    /\ recorded' = Append(recorded, word)
    /\ UNCHANGED <<codecVars, pc_sig, pc_stop, dataVars, flagVars, queueVars, current_buffer, profiler_buffer_end_ptr,
                   stop_call, consVars, flushVars, pushed, pushed_before_stop, processed>>

Record == \E word \in PipeWords : Profiler_Record(word)

\* the same with a single word to choose from (the hand-off never looks at
\* the words it carries)
RecordOne == Profiler_Record(RecordInstructionExecuteWord(1))

\* ProfilerThread::PushFilledBuffer (one critical section of filled_mutex_)
\* push_front instead of push_back
PushFilledBuffer_Front(queue, buffer) == <<buffer>> \o queue

PushFilledBuffer(queue, buffer) == Append(queue, buffer)

\* ClientBufferManager::SwitchBuffer up to the call of GetEmptyBuffer
SwitchBuffer ==
    /\ pc_main = "switch"
    /\ IF current_buffer # NULL
       THEN LET n == profiler_current_buffer_ptr.off
                pool == [buffer_pool EXCEPT ![current_buffer].count = n]
            IN  /\ buffer_pool' = pool
                /\ filled_buffers' = PushFilledBuffer(filled_buffers, current_buffer)
                /\ pushed' = pushed \o BufferWords(pool, current_buffer)
       ELSE UNCHANGED <<buffer_pool, filled_buffers, pushed>>
    /\ pc_main' = "get_empty"
    /\ UNCHANGED <<codecVars, pc_sig, pc_stop, dataVars, flagVars, empty_buffers, clientVars, stop_call, consVars,
                   flushVars, recorded, pushed_before_stop, processed, switch_calls>>

\* ProfilerThread::GetEmptyBuffer: lock empty_mutex_ and evaluate the loop
\* condition; either go on to empty_cv_.wait (still holding the mutex) or
\* return the front buffer (nullptr when the queue is empty), after which
\* SwitchBuffer stores it and calls UpdateGlobalPointers
GetEmptyBuffer ==
    /\ pc_main = "get_empty"
    /\ IF empty_buffers = << >> /\ running
       THEN /\ warned' = TRUE
            /\ pc_main' = "ge_wait"
            /\ UNCHANGED <<empty_buffers, clientVars>>
       ELSE /\ LET buffer == IF empty_buffers = << >> THEN NULL ELSE Head(empty_buffers)
               IN  /\ current_buffer' = buffer
                   /\ profiler_current_buffer_ptr' =
                         IF buffer # NULL THEN [buf |-> buffer, off |-> 0] ELSE NullPtr
                   /\ profiler_buffer_end_ptr' =
                         IF buffer # NULL THEN [buf |-> buffer, off |-> BUFFER_SIZE] ELSE NullPtr
            /\ empty_buffers' = IF empty_buffers = << >> THEN empty_buffers ELSE Tail(empty_buffers)
            /\ pc_main' = "run"
            /\ warned' = warned
    /\ UNCHANGED <<codecVars, pc_sig, pc_stop, dataVars, running, should_flush, filled_buffers, buffer_pool, stop_call,
                   consVars, flushVars, histVars>>

\* empty_cv_.wait(lock): release empty_mutex_ and block
EmptyCvWait ==
    /\ pc_main = "ge_wait"
    /\ pc_main' = "ge_blocked"
    /\ UNCHANGED <<codecVars, pc_sig, pc_stop, dataVars, flagVars, queueVars, buffer_pool, clientVars, stop_call,
                   consVars, flushVars, histVars>>

\* a condition variable may wake without a notification
SpuriousWakeup ==
    /\ pc_main = "ge_blocked"
    /\ pc_main' = "get_empty"
    /\ UNCHANGED <<codecVars, pc_sig, pc_stop, dataVars, flagVars, queueVars, buffer_pool, clientVars, stop_call,
                   consVars, flushVars, histVars>>

\* Profiler_Shutdown, first half: CleanupClient deletes the buffer manager,
\* whose destructor pushes the partially filled current buffer
CleanupClient ==
    /\ pc_main = "run"
    /\ IF current_buffer # NULL
       THEN LET n == profiler_current_buffer_ptr.off
                pool == [buffer_pool EXCEPT ![current_buffer].count = n]
            IN  /\ buffer_pool' = pool
                /\ IF n > 0
                   THEN /\ filled_buffers' = PushFilledBuffer(filled_buffers, current_buffer)
                        /\ pushed' = pushed \o BufferWords(pool, current_buffer)
                   ELSE UNCHANGED <<filled_buffers, pushed>>
       ELSE UNCHANGED <<buffer_pool, filled_buffers, pushed>>
    /\ current_buffer' = NULL
    /\ stop_call' = 1
    /\ pc_main' = "stop_check"
    /\ UNCHANGED <<codecVars, pc_sig, pc_stop, dataVars, flagVars, empty_buffers, profiler_current_buffer_ptr,
                   profiler_buffer_end_ptr, consVars, flushVars, recorded,
                   pushed_before_stop, processed, switch_calls>>

\* where the main thread continues when a call of Stop returns:
\* ShutdownProfiler deletes the ProfilerThread, whose destructor calls Stop again
AfterStop(call) == IF call = 1 THEN "stop_check" ELSE "done"

\* ProfilerThread::Stop: if (!running_.load()) return;
\* Stop without its early return
StopEntry_NoGuard(isRunning) == "stop_store"

StopEntry(isRunning) == IF isRunning THEN "stop_store" ELSE "return"

StopCheck ==
    /\ pc_main = "stop_check"
    /\ IF StopEntry(running) = "return"
       THEN /\ pc_main' = AfterStop(stop_call)
            /\ stop_call' = stop_call + 1
       ELSE /\ pc_main' = "stop_store"
            /\ stop_call' = stop_call
    /\ UNCHANGED <<codecVars, pc_sig, pc_stop, dataVars, flagVars, queueVars, buffer_pool, clientVars,
                   consVars, flushVars, histVars>>

\* running_.store(false)
StopStore ==
    /\ pc_main = "stop_store"
    /\ running' = FALSE
    /\ pushed_before_stop' = pushed
    /\ pc_main' = "stop_notify"
    /\ UNCHANGED <<codecVars, pc_sig, pc_stop, dataVars, should_flush, warned, queueVars, buffer_pool, clientVars,
                   stop_call, consVars, flushVars, recorded, pushed, processed, switch_calls>>

\* filled_cv_.notify_all(); empty_cv_.notify_all();
StopNotify ==
    /\ pc_main = "stop_notify"
    /\ pc_main' = "stop_join"
    /\ UNCHANGED <<codecVars, pc_sig, pc_stop, dataVars, flagVars, queueVars, buffer_pool, clientVars, stop_call,
                   consVars, flushVars, histVars>>

\* thread_.join() returns once ThreadFunc has returned
\* Stop without the join
JoinReturns_NoJoin(consumer_pc) == TRUE

JoinReturns(consumer_pc) == consumer_pc = "exited"

StopJoin ==
    /\ pc_main = "stop_join"
    /\ JoinReturns(pc_cons)
    /\ pc_main' = "stop_flush"
    /\ UNCHANGED <<codecVars, pc_sig, pc_stop, dataVars, flagVars, queueVars, buffer_pool, clientVars, stop_call,
                   consVars, flushVars, histVars>>

\* ProfilerThread::FlushToFile, entry: lock output_mutex_
FlushToFileBegin(t) ==
    /\ flushing = {}
    /\ flushing' = flushing \cup {t}
    /\ stop_flushes' = IF t # "consumer" THEN stop_flushes + 1 ELSE stop_flushes

\* ProfilerThread::FlushToFile, body: Finalize, ConvertToGroupedData,
\* WriteToFile (which leaves the file alone when it cannot open it), unlock
FlushToFileEnd(t) ==
    /\ t \in flushing
    /\ flushing' = flushing \ {t}
    /\ \E opened \in BOOLEAN :
          /\ file' = IF opened
                     THEN [instruction_costs |-> Finalize(data).instruction_costs,
                           total_instructions |-> Finalize(data).total_instructions]
                     ELSE file
          /\ write_failed' = ~opened
    /\ flush_pending' = FALSE
    /\ data' = Finalize(data)

StopFlushBegin ==
    /\ pc_main = "stop_flush"
    /\ FlushToFileBegin("main")
    /\ pc_main' = "stop_flushing"
    /\ UNCHANGED <<codecVars, pc_sig, pc_stop, dataVars, flagVars, queueVars, buffer_pool, clientVars, stop_call,
                   consVars, file, flush_pending, write_failed, histVars>>

StopFlushEnd ==
    /\ pc_main = "stop_flushing"
    /\ FlushToFileEnd("main")
    /\ pc_main' = AfterStop(stop_call)
    /\ stop_call' = stop_call + 1
    /\ UNCHANGED <<codecVars, pc_sig, pc_stop, last_event, nsteps, flagVars, queueVars, buffer_pool, clientVars,
                   consVars, stop_flushes, histVars>>

\* ProfilerThread::Flush, callable from any thread and from the signal handler
Flush ==
    /\ pc_main \notin {"off", "done"}
    /\ should_flush' = TRUE
    /\ flush_pending' = (flush_pending \/ running)
    /\ UNCHANGED <<codecVars, pc_sig, pc_stop, dataVars, running, warned, queueVars, buffer_pool, clientVars, pc_main,
                   stop_call, consVars, flushing, file, stop_flushes, write_failed, histVars>>

\* ---- ThreadFunc
\* while (running_.load())
LoopContinues(isRunning) == isRunning

ThreadLoop ==
    /\ pc_cons = "loop"
    /\ pc_cons' = IF LoopContinues(running) THEN "wait" ELSE "exited"
    /\ UNCHANGED <<codecVars, pc_sig, pc_stop, dataVars, flagVars, queueVars, buffer_pool, clientVars, pc_main, stop_call,
                   cons_buffer, cons_i, flushVars, histVars>>

\* the critical section of filled_mutex_: wait_for returns when its predicate
\* holds or after one second, then the front buffer, if any, is taken
ThreadTake ==
    /\ pc_cons = "wait"
    /\ IF filled_buffers # << >>
       THEN /\ cons_buffer' = Head(filled_buffers)
            /\ filled_buffers' = Tail(filled_buffers)
            /\ cons_i' = 0
            /\ pc_cons' = "process"
       ELSE /\ cons_buffer' = NULL
            /\ UNCHANGED <<filled_buffers, cons_i>>
            /\ pc_cons' = "check_flush"
    /\ UNCHANGED <<codecVars, pc_sig, pc_stop, dataVars, flagVars, empty_buffers, buffer_pool, clientVars, pc_main,
                   stop_call, flushVars, histVars>>

\* BufferConsumer::ProcessBuffer: one iteration of the loop over events[0..count)
ProcessBufferEvent ==
    /\ pc_cons = "process"
    /\ cons_i < buffer_pool[cons_buffer].count
    /\ LET event == buffer_pool[cons_buffer].events[cons_i + 1]
       IN  /\ data' = ProcessEvent(data, event)
           /\ last_event' = event
           /\ processed' = Append(processed, event)
    /\ nsteps' = nsteps + 1
    /\ cons_i' = cons_i + 1
    /\ UNCHANGED <<codecVars, pc_sig, pc_stop, flagVars, queueVars, buffer_pool, clientVars, pc_main, stop_call,
                   pc_cons, cons_buffer, flushVars, recorded, pushed, pushed_before_stop,
                   switch_calls>>

\* BufferConsumer::ProcessBuffer: loop exit, buffer->Clear()
ProcessBufferDone ==
    /\ pc_cons = "process"
    /\ cons_i >= buffer_pool[cons_buffer].count
    /\ buffer_pool' = [buffer_pool EXCEPT ![cons_buffer].count = 0]
    /\ pc_cons' = "return_buf"
    /\ UNCHANGED <<codecVars, pc_sig, pc_stop, dataVars, flagVars, queueVars, clientVars, pc_main, stop_call,
                   cons_buffer, cons_i, flushVars, histVars>>

\* the critical section of empty_mutex_: push_back and notify_one.  The
\* mutex is held by the main thread between GetEmptyBuffer's check and its wait.
\* the processed buffer not put back
ReturnedTo_Dropped(queue, buffer) == queue

ReturnedTo(queue, buffer) == Append(queue, buffer)

ThreadReturnBuffer ==
    /\ pc_cons = "return_buf"
    /\ pc_main # "ge_wait"
    /\ empty_buffers' = ReturnedTo(empty_buffers, cons_buffer)
    /\ pc_main' = NotifyEmpty(pc_main)
    /\ pc_cons' = "check_flush"
    /\ UNCHANGED <<codecVars, pc_sig, pc_stop, dataVars, flagVars, filled_buffers, buffer_pool, clientVars, stop_call,
                   cons_buffer, cons_i, flushVars, histVars>>

\* if (should_flush_.load() || (now - last_flush_time) >= flush_interval)
FlushDue(requested, elapsed) == requested \/ elapsed

ThreadCheckFlush ==
    /\ pc_cons = "check_flush"
    /\ \E elapsed \in BOOLEAN :
          pc_cons' = IF FlushDue(should_flush, elapsed) THEN "flush" ELSE "loop"
    /\ UNCHANGED <<codecVars, pc_sig, pc_stop, dataVars, flagVars, queueVars, buffer_pool, clientVars, pc_main, stop_call,
                   cons_buffer, cons_i, flushVars, histVars>>

ThreadFlushBegin ==
    /\ pc_cons = "flush"
    /\ FlushToFileBegin("consumer")
    /\ pc_cons' = "flushing"
    /\ UNCHANGED <<codecVars, pc_sig, pc_stop, dataVars, flagVars, queueVars, buffer_pool, clientVars, pc_main, stop_call,
                   cons_buffer, cons_i, file, flush_pending, write_failed, histVars>>

ThreadFlushEnd ==
    /\ pc_cons = "flushing"
    /\ FlushToFileEnd("consumer")
    /\ pc_cons' = "flush_clear"
    /\ UNCHANGED <<codecVars, pc_sig, pc_stop, last_event, nsteps, flagVars, queueVars, buffer_pool, clientVars, pc_main,
                   stop_call, cons_buffer, cons_i, stop_flushes, histVars>>

\* last_flush_time = now; should_flush_.store(false);
\* the flag left as it was
AfterFlush_Keep(requested) == requested

AfterFlush(requested) == FALSE

ThreadFlushClear ==
    /\ pc_cons = "flush_clear"
    /\ should_flush' = AfterFlush(should_flush)
    /\ pc_cons' = "loop"
    /\ UNCHANGED <<codecVars, pc_sig, pc_stop, dataVars, running, warned, queueVars, buffer_pool, clientVars, pc_main,
                   stop_call, cons_buffer, cons_i, flushVars, histVars>>

MainNext ==
    \/ Profiler_Initialize
    \/ Record
    \/ SwitchBuffer
    \/ GetEmptyBuffer
    \/ EmptyCvWait
    \/ SpuriousWakeup
    \/ CleanupClient
    \/ StopCheck
    \/ StopStore
    \/ StopNotify
    \/ StopJoin
    \/ StopFlushBegin
    \/ StopFlushEnd

ThreadFunc ==
    \/ ThreadLoop
    \/ ThreadTake
    \/ ProcessBufferEvent
    \/ ProcessBufferDone
    \/ ThreadReturnBuffer
    \/ ThreadCheckFlush
    \/ ThreadFlushBegin
    \/ ThreadFlushEnd
    \/ ThreadFlushClear

Next == MainNext \/ ThreadFunc \/ Flush

Spec == Init /\ [][Next]_vars

\* Scheduling: both threads keep running their code (but the emulator is
\* free to stop recording and never to shut down, nobody has to call Flush,
\* and a spurious wake-up need not happen).  The consumer passes its flush
\* check at least once a second, so the 30 s interval is found elapsed after
\* finitely many passes.  A thread waiting for empty_mutex_ gets it when it
\* is released again and again.
MainProgress ==
    \/ SwitchBuffer
    \/ GetEmptyBuffer
    \/ EmptyCvWait
    \/ StopCheck
    \/ StopStore
    \/ StopNotify
    \/ StopJoin
    \/ StopFlushBegin
    \/ StopFlushEnd

PeriodicFlush == ThreadCheckFlush /\ pc_cons' = "flush"

Fairness ==
    /\ WF_vars(ThreadFunc)
    /\ WF_vars(MainProgress)
    /\ SF_vars(PeriodicFlush)
    /\ SF_vars(ThreadReturnBuffer)

NextLive ==
    \/ Profiler_Initialize
    \/ RecordOne
    \/ MainProgress
    \/ SpuriousWakeup
    \/ CleanupClient
    \/ ThreadFunc
    \/ Flush

SpecLive == Init /\ [][NextLive]_vars /\ Fairness

\* ------------------------------------- Stop called by a second thread
\* ProfilerThread::Stop run by a thread that is neither the emulator nor the
\* profiler thread, while the emulator goes on recording.
\* if (!running_.load()) return;
OtherStopCheck ==
    /\ pc_stop = "idle"
    /\ pc_main # "off"
    /\ pc_stop' = IF StopEntry(running) = "return" THEN "done" ELSE "stop_store"
    /\ UNCHANGED <<codecVars, pc_sig, dataVars, flagVars, queueVars, buffer_pool, clientVars, pc_main,
                   stop_call, consVars, flushVars, histVars>>

\* running_.store(false): an atomic store made without empty_mutex_
OtherStopStore ==
    /\ pc_stop = "stop_store"
    /\ running' = FALSE
    /\ pushed_before_stop' = pushed
    /\ pc_stop' = "stop_notify"
    /\ UNCHANGED <<codecVars, pc_sig, dataVars, should_flush, warned, queueVars, buffer_pool, clientVars,
                   pc_main, stop_call, consVars, flushVars, recorded, pushed, processed,
                   switch_calls>>

\* filled_cv_.notify_all(); empty_cv_.notify_all(): wakes the emulator when
\* it is inside empty_cv_.wait, and nobody otherwise
OtherStopNotify ==
    /\ pc_stop = "stop_notify"
    /\ pc_main' = NotifyEmpty(pc_main)
    /\ pc_stop' = "stop_join"
    /\ UNCHANGED <<codecVars, pc_sig, dataVars, flagVars, queueVars, buffer_pool, clientVars, stop_call,
                   consVars, flushVars, histVars>>

OtherStopJoin ==
    /\ pc_stop = "stop_join"
    /\ JoinReturns(pc_cons)
    /\ pc_stop' = "stop_flush"
    /\ UNCHANGED <<codecVars, pc_sig, dataVars, flagVars, queueVars, buffer_pool, clientVars, pc_main,
                   stop_call, consVars, flushVars, histVars>>

OtherStopFlushBegin ==
    /\ pc_stop = "stop_flush"
    /\ FlushToFileBegin("stop")
    /\ pc_stop' = "stop_flushing"
    /\ UNCHANGED <<codecVars, pc_sig, dataVars, flagVars, queueVars, buffer_pool, clientVars, pc_main,
                   stop_call, consVars, file, flush_pending, write_failed, histVars>>

OtherStopFlushEnd ==
    /\ pc_stop = "stop_flushing"
    /\ FlushToFileEnd("stop")
    /\ pc_stop' = "done"
    /\ UNCHANGED <<codecVars, pc_sig, last_event, nsteps, flagVars, queueVars, buffer_pool, clientVars,
                   pc_main, stop_call, consVars, stop_flushes, histVars>>

OtherStop ==
    \/ OtherStopCheck
    \/ OtherStopStore
    \/ OtherStopNotify
    \/ OtherStopJoin
    \/ OtherStopFlushBegin
    \/ OtherStopFlushEnd

\* the emulator records while it has a buffer: a store through the null
\* cursor GetEmptyBuffer's nullptr leaves behind ends the process
RecordHeld == profiler_current_buffer_ptr # NullPtr /\ RecordOne

\* the steps the emulator takes inside Profiler_SwitchBuffer
ProducerProgress ==
    \/ SwitchBuffer
    \/ GetEmptyBuffer
    \/ EmptyCvWait

NextStop ==
    \/ Profiler_Initialize
    \/ RecordHeld
    \/ ProducerProgress
    \/ SpuriousWakeup
    \/ ThreadFunc
    \/ OtherStop

\* every thread keeps running its code; a spurious wake-up need not happen
FairnessStop ==
    /\ WF_vars(ThreadFunc)
    /\ WF_vars(ProducerProgress)
    /\ WF_vars(OtherStop)
    /\ SF_vars(ThreadReturnBuffer)

SpecStop == Init /\ [][NextStop]_vars /\ FairnessStop

\* ------------------------------------------------- SIGINT and SIGTERM
\* ProfilerThread::HandleSignal, first half: Flush() stores should_flush_
\* and notifies filled_cv_; the other threads run on meanwhile
HandleSignalFlush ==
    /\ pc_sig = "idle"
    /\ running
    /\ should_flush' = TRUE
    /\ flush_pending' = TRUE
    /\ pc_sig' = "raise"
    /\ UNCHANGED <<codecVars, pc_stop, dataVars, running, warned, queueVars, buffer_pool,
                   clientVars, pc_main, stop_call, consVars, flushing, file, stop_flushes,
                   write_failed, histVars>>

\* std::signal(signal, SIG_DFL); std::raise(signal): the default action of
\* SIGINT and SIGTERM ends the process with all its threads
HandleSignalRaise ==
    /\ pc_sig = "raise"
    /\ pc_sig' = "terminated"
    /\ UNCHANGED <<codecVars, pc_stop, dataVars, flagVars, queueVars, buffer_pool, clientVars,
                   pc_main, stop_call, consVars, flushVars, histVars>>

\* the threads take steps as long as the process lives
NextSignal ==
    \/ HandleSignalFlush
    \/ HandleSignalRaise
    \/ (pc_sig # "terminated" /\ NextLive)

SpecSignal == Init /\ [][NextSignal]_vars

\* ------------------------------------------- the recorder's encoders alone
RECURSIVE Pow2(_)
Pow2(n) == IF n = 0 THEN 1 ELSE 2 * Pow2(n - 1)

EventTypes == {INSTR_EXECUTE, JUMP, CALL, RETURN, DATA_READ, DATA_WRITE, INSTR_READ}

\* 24-bit addresses: the small ones, every single bit, all bits
CodecAddrs == Addrs \cup {Pow2(k) : k \in 0..23} \cup {Pow2_24 - 1}

\* return_offset is a parameter of Profiler_RecordCall only
CodecInputs ==
    {[type |-> t, address |-> a, return_offset |-> off] :
        t \in EventTypes, a \in CodecAddrs, off \in 0..15} \
    {in \in [type : EventTypes, address : CodecAddrs, return_offset : 1..15] : in.type # CALL}

InitCodec ==
    /\ InitProfiler
    /\ codec_in \in CodecInputs
    /\ codec_word = NULL

\* the encoder for events of the given type computes its word
Encode(type, word) ==
    /\ codec_word = NULL
    /\ codec_in.type = type
    /\ codec_word' = word
    /\ UNCHANGED <<dataVars, pipeVars, codec_in>>

EncodeInstructionExecute == Encode(INSTR_EXECUTE, RecordInstructionExecuteWord(codec_in.address))
EncodeJump == Encode(JUMP, RecordJumpWord(codec_in.address))
EncodeCall == Encode(CALL, RecordCallWord(codec_in.address, codec_in.return_offset))
EncodeReturn == Encode(RETURN, RecordReturnWord(codec_in.address))
EncodeDataRead == Encode(DATA_READ, RecordDataReadWord(codec_in.address))
EncodeDataWrite == Encode(DATA_WRITE, RecordDataWriteWord(codec_in.address))
EncodeInstrRead == Encode(INSTR_READ, RecordInstrReadWord(codec_in.address))

NextCodec ==
    \/ EncodeInstructionExecute
    \/ EncodeJump
    \/ EncodeCall
    \/ EncodeReturn
    \/ EncodeDataRead
    \/ EncodeDataWrite
    \/ EncodeInstrRead

SpecCodec == InitCodec /\ [][NextCodec]_vars

\* MakeEvent applied to the type and the address drawn for the encoders
ApplyMakeEvent ==
    /\ codec_word = NULL
    /\ codec_word' = MakeEvent(codec_in.type, codec_in.address)
    /\ UNCHANGED <<dataVars, pipeVars, codec_in>>

SpecMakeEvent == InitCodec /\ [][ApplyMakeEvent]_vars

\* ------------------------------------------------------------------ claims
RECURSIVE SumSelf(_, _)
SumSelf(costs, S) ==
    IF S = {} THEN 0
    ELSE LET a == CHOOSE x \in S : TRUE
         IN  costs[a].self_cost + SumSelf(costs, S \ {a})

\* C1: the sum of self_cost over all entries of the InstructionCost table
\* equals total_instructions after any sequence of processed events.
C1_SelfCostSum ==
    SumSelf(data.instruction_costs, DOMAIN data.instruction_costs) = data.total_instructions

C1_Witness ==
    /\ data.total_instructions >= 3
    /\ Cardinality(DOMAIN data.instruction_costs) >= 3
    /\ Len(data.call_stack) >= 2

IsPrefix(s, t) == Len(s) <= Len(t) /\ SubSeq(t, 1, Len(s)) = s

\* C2: every event of a buffer pushed to the filled queue before Stop
\* cleared the running flag has been processed once Stop's final
\* FlushToFile is under way.
C2_NoLossAtShutdown ==
    stop_flushes >= 1 => IsPrefix(pushed_before_stop, processed)

\* C3: while the profiler is running, the words handed to ProcessEvent are
\* a prefix of the words the emulator recorded, in the same order.
C3_ProcessedIsPrefix ==
    running => IsPrefix(processed, recorded)

\* more than a pool's worth recorded (a recycled buffer is in use), more
\* than one buffer processed, both kinds of word seen
C3_Witness ==
    /\ running
    /\ Len(recorded) > BUFFER_SIZE * BUFFER_POOL_SIZE
    /\ Len(processed) > BUFFER_SIZE
    /\ \E i, j \in 1..Len(processed) : processed[i] # processed[j]

\* C4: n recorded events have triggered exactly floor(n / BUFFER_SIZE)
\* calls of Profiler_SwitchBuffer, and every buffer a switch hands to the
\* filled queue has count = BUFFER_SIZE.
C4_SwitchCount ==
    /\ [](switch_calls = Len(recorded) \div BUFFER_SIZE)
    /\ [][ (pc_main = "switch" /\ pc_main' = "get_empty") =>
              /\ Len(filled_buffers') = Len(filled_buffers) + 1
              /\ buffer_pool'[filled_buffers'[Len(filled_buffers')]].count = BUFFER_SIZE ]_vars

\* BUFFER_SIZE + 1 events, one switch, the new buffer acquired
C4_Witness ==
    /\ Len(recorded) = BUFFER_SIZE + 1
    /\ switch_calls = 1
    /\ pc_main = "run"
    /\ profiler_current_buffer_ptr.off = 1

InGetEmptyBuffer == pc_main \in {"get_empty", "ge_wait", "ge_blocked"}

\* C5: with the empty queue exhausted and the profiler running,
\* GetEmptyBuffer blocks: it returns no null buffer and no recorded event is
\* lost; with the threads scheduled fairly it eventually returns a buffer.
C5_Backpressure ==
    /\ [][ (pc_main = "get_empty" /\ empty_buffers = << >> /\ running /\ pc_main' # pc_main) =>
              pc_main' = "ge_wait" ]_vars
    /\ [](pc_main = "run" => current_buffer # NULL /\ profiler_current_buffer_ptr # NullPtr)
    /\ []((pc_main \in {"run", "switch"}) =>
              recorded = pushed \o SubSeq([i \in 1..BUFFER_SIZE |-> buffer_pool[current_buffer].events[i]],
                                          1, profiler_current_buffer_ptr.off))
    /\ (InGetEmptyBuffer ~> (pc_main = "run" /\ current_buffer # NULL))

\* the emulator blocked with every buffer filled or being processed
C5_Witness ==
    /\ pc_main = "ge_blocked"
    /\ empty_buffers = << >>
    /\ running
    /\ warned

\* C6: Stop on a running profiler performs exactly one final FlushToFile,
\* begun only after ThreadFunc has returned; the destructor's Stop performs
\* none.
C6_OneFinalFlush ==
    /\ stop_flushes <= 1
    /\ (pc_main \in {"stop_flush", "stop_flushing"} => pc_cons = "exited")
    /\ (pc_main = "stop_flushing" => stop_call = 1)
    /\ (pc_main = "done" => stop_flushes = 1)

\* both calls of Stop have returned
C6_Witness ==
    /\ pc_main = "done"
    /\ stop_call = 3
    /\ stop_flushes = 1
    /\ Len(processed) > 0

\* C7: at most one FlushToFile is in progress, and none while the consumer
\* is inside ProcessBuffer.
C7_FlushExclusive ==
    /\ Cardinality(flushing) <= 1
    /\ (flushing # {} => pc_cons # "process")

\* the final flush in progress after events were processed
C7_Witness ==
    /\ flushing = {"main"}
    /\ Len(processed) > 0
    /\ file # NoFile

\* C8: a Flush() made while the profiler is running is followed by the
\* completion of a FlushToFile (the consumer's, or Stop's final one), and
\* while the profiler keeps running the should_flush flag is cleared.
C8_FlushServed ==
    /\ (flush_pending ~> ~flush_pending)
    /\ ((should_flush /\ running) ~> (~should_flush \/ ~running))

\* a request that arrived between the end of FlushToFile and the clearing
\* of the flag: the flag is down again and no flush has completed since
C8_Witness ==
    /\ flush_pending
    /\ ~should_flush
    /\ running
    /\ pc_cons = "loop"

\* the counters of call edge src -> tgt (all zero while the edge does not exist)
CallEdge(d, src, tgt) ==
    IF src \in DOMAIN d.instruction_costs /\ tgt \in DOMAIN d.instruction_costs[src].calls
    THEN d.instruction_costs[src].calls[tgt]
    ELSE NewCallInfo

\* a step in which ProcessEvent received a word of the given type
Processes(type) ==
    /\ nsteps' = nsteps + 1
    /\ last_event' # NULL
    /\ GetEventType(last_event') = type

\* C9: InstrExecute(a) processed with an empty call stack adds one to the
\* call_count of the root edge 0 -> a, pushes exactly one frame (callee a,
\* call site 0), adds one to total_instructions and counts the instruction
\* in the new frame's inclusive_instructions.
C9_SyntheticRoot ==
    [][ (Processes(INSTR_EXECUTE) /\ data.call_stack = << >>) =>
          LET a == GetEventAddress(last_event')
          IN  /\ CallEdge(data', 0, a).call_count = CallEdge(data, 0, a).call_count + 1
              /\ Len(data'.call_stack) = 1
              /\ data'.call_stack[1].address = a
              /\ data'.call_stack[1].caller_pc = 0
              /\ data'.call_stack[1].call_info = <<0, a>>
              /\ data'.total_instructions = data.total_instructions + 1
              /\ CallEdge(data', 0, a).inclusive_instructions =
                     CallEdge(data, 0, a).inclusive_instructions + 1 ]_vars

\* InstrExecute(1), a Return that empties the stack, InstrExecute(1) again
C9_Witness ==
    /\ nsteps = 3
    /\ last_event = RecordInstructionExecuteWord(1)
    /\ Len(data.call_stack) = 1
    /\ data.total_instructions = 2
    /\ CallEdge(data, 0, 1).call_count = 2
    /\ CallEdge(data, 0, 1).inclusive_instructions = 2

\* C10: Call(t, off) at current pc p pushes exactly one frame with expected
\* return address p + 2 + off and sets current pc to t; Return(r) processed
\* while the top frame expects r pops exactly that frame and leaves the
\* frames below unchanged.
C10_CallReturn ==
    [][ /\ Processes(CALL) =>
            LET t == GetEventAddress(last_event')
                off == GetReturnOffset(last_event')
                n == Len(data.call_stack)
            IN  /\ Len(data'.call_stack) = n + 1
                /\ SubSeq(data'.call_stack, 1, n) = data.call_stack
                /\ data'.call_stack[n + 1].return_address = data.current_pc + 2 + off
                /\ data'.call_stack[n + 1].address = t
                /\ data'.call_stack[n + 1].caller_pc = data.current_pc
                /\ data'.current_pc = t
        /\ ( /\ Processes(RETURN)
             /\ data.call_stack # << >>
             /\ data.call_stack[Len(data.call_stack)].return_address = GetEventAddress(last_event') ) =>
            /\ data'.call_stack = SubSeq(data.call_stack, 1, Len(data.call_stack) - 1)
            /\ data'.current_pc = GetEventAddress(last_event') ]_vars

\* Call(1, 0) at pc 0, Call(2, 0) at pc 1, Return(3): the outer frame remains
C10_Witness ==
    /\ nsteps = 3
    /\ last_event = RecordReturnWord(3)
    /\ data.current_pc = 3
    /\ Len(data.call_stack) = 1
    /\ data.call_stack[1].return_address = 2
    /\ CallEdge(data, 1, 2).call_count = 1

\* the frames of the stack that expect the return address a
Matching(stack, a) == {i \in 1..Len(stack) : stack[i].return_address = a}

\* C11: Return(a) processed while the top frame does not expect a but some
\* frame does pops every frame above the innermost frame expecting a and that
\* frame too, leaves the frames below it unchanged and sets current pc to a.
C11_LongjmpUnwind ==
    [][ ( /\ Processes(RETURN)
          /\ data.call_stack # << >>
          /\ data.call_stack[Len(data.call_stack)].return_address # GetEventAddress(last_event')
          /\ Matching(data.call_stack, GetEventAddress(last_event')) # {} ) =>
            LET a == GetEventAddress(last_event')
                m == Matching(data.call_stack, a)
                i == CHOOSE x \in m : \A y \in m : y <= x
            IN  /\ data'.call_stack = SubSeq(data.call_stack, 1, i - 1)
                /\ data'.current_pc = a ]_vars

\* Call(1, 1) at pc 0 and Call(0, 0) at pc 1 both expect 3, Call(t, 0) at
\* pc 0 expects 2; Return(3) unwinds to the inner of the two frames
\* expecting 3 and leaves the outer one
C11_Witness ==
    /\ nsteps = 4
    /\ last_event = RecordReturnWord(3)
    /\ data.current_pc = 3
    /\ Len(data.call_stack) = 1
    /\ data.call_stack[1].return_address = 3
    /\ data.call_stack[1].call_info = <<0, 1>>
    /\ \E t \in Addrs \ {1} : t \in DOMAIN data.instruction_costs[0].calls
    /\ 1 \in DOMAIN data.instruction_costs /\ 0 \in DOMAIN data.instruction_costs[1].calls

\* C12: Return(a) processed while the stack is non-empty and no frame
\* expects a empties the stack, sets current pc to a and leaves the
\* InstructionCost table as it was; the InstrExecute(b) processed next
\* synthesizes a fresh root frame for b.
C12_UnmatchedReturn ==
    [][ /\ ( /\ Processes(RETURN)
             /\ data.call_stack # << >>
             /\ Matching(data.call_stack, GetEventAddress(last_event')) = {} ) =>
            /\ data'.call_stack = << >>
            /\ data'.current_pc = GetEventAddress(last_event')
            /\ data'.instruction_costs = data.instruction_costs
            /\ data'.total_instructions = data.total_instructions
        /\ ( /\ Processes(INSTR_EXECUTE)
             /\ last_event # NULL
             /\ GetEventType(last_event) = RETURN
             /\ data.call_stack = << >> ) =>
            LET b == GetEventAddress(last_event')
            IN  /\ Len(data'.call_stack) = 1
                /\ data'.call_stack[1].address = b
                /\ data'.call_stack[1].call_info = <<0, b>>
                /\ CallEdge(data', 0, b).call_count = CallEdge(data, 0, b).call_count + 1 ]_vars

\* a jump to 3 with no frame on the stack, Call(1, off) at pc 3 (expecting 5
\* or 6, which no Return of the model carries), a Return, InstrExecute(2)
C12_Witness ==
    /\ nsteps = 4
    /\ last_event = RecordInstructionExecuteWord(2)
    /\ Len(data.call_stack) = 1
    /\ data.call_stack[1].call_info = <<0, 2>>
    /\ CallEdge(data, 0, 2).call_count = 1
    /\ CallEdge(data, 3, 1).call_count = 1
    /\ data.instruction_costs[3].self_cost = 0
    /\ data.total_instructions = 1

\* the addresses in the instruction list of function f of grouped data g
Members(g, f) ==
    {GetFunctions(g)[f].instructions[k].address : k \in DOMAIN GetFunctions(g)[f].instructions}

\* C13: after ConvertToGroupedData every address of the InstructionCost
\* table is in the instruction list of exactly one GroupedFunction, once, and
\* no GroupedFunction holds an address that is not in the table.
C13_Partition ==
    LET g == ConvertToGroupedData(data)
        fs == GetFunctions(g)
    IN  /\ \A a \in DOMAIN data.instruction_costs :
              Cardinality({f \in DOMAIN fs : a \in Members(g, f)}) = 1
        /\ \A f \in DOMAIN fs :
              /\ Members(g, f) \subseteq DOMAIN data.instruction_costs
              /\ Cardinality(Members(g, f)) = Len(fs[f].instructions)

\* three functions, one of them with two instructions
C13_Witness ==
    LET fs == GetFunctions(ConvertToGroupedData(data))
    IN  /\ Cardinality(DOMAIN fs) >= 3
        /\ \E f \in DOMAIN fs : Len(fs[f].instructions) >= 2

\* C14: the entry-point set computed by ConvertToGroupedData is a fixed
\* point of the promotion rule: every recorded jump S -> T with an entry of
\* the final set strictly between min(S, T) and max(S, T) has T in the set
\* and (S, T) marked boundary-crossing.
C14_PromotionFixedPoint ==
    LET costs == data.instruction_costs
        st == CollectEntries(costs)
    IN  \A p \in JumpPairs(costs) :
            (\E e \in st.function_entries :
                 /\ e > (IF p[1] < p[2] THEN p[1] ELSE p[2])
                 /\ e < (IF p[1] < p[2] THEN p[2] ELSE p[1]))
            => /\ p[2] \in st.function_entries
               /\ p \in st.cross_boundary_jumps

\* function f of grouped data g holds a FunctionCall made at caller_address
\* s to target_function t carrying the counters of info
HasFunctionCall(g, f, s, t, info) ==
    \E k \in DOMAIN GetFunctions(g)[f].calls :
        LET fc == GetFunctions(g)[f].calls[k]
        IN  /\ fc.caller_address = s
            /\ fc.target_function = t
            /\ fc.call_count = info.call_count
            /\ fc.inclusive_instructions = info.inclusive_instructions
            /\ fc.inclusive_instr_fetches = info.inclusive_instr_fetches
            /\ fc.inclusive_data_reads = info.inclusive_data_reads
            /\ fc.inclusive_data_writes = info.inclusive_data_writes

\* C15 as stated: for every boundary-crossing jump S -> T, T is a function
\* entry and the GroupedFunction owning S holds a synthesized FunctionCall
\* with caller_address S, target_function T and the counters of the jump's
\* CallInfo.
C15_SynthesizedCall ==
    LET costs == data.instruction_costs
        st == CollectEntries(costs)
        g == ConvertToGroupedData(data)
    IN  \A p \in st.cross_boundary_jumps :
            /\ p[2] \in st.function_entries
            /\ \E f \in DOMAIN GetFunctions(g) :
                   /\ p[1] \in Members(g, f)
                   /\ HasFunctionCall(g, f, p[1], p[2], costs[p[1]].jumps[p[2]])

\* C15 amended: for every boundary-crossing jump S -> T, T is a function
\* entry; when T has an entry in the InstructionCost table, T is the entry
\* address of a GroupedFunction and the GroupedFunction owning S holds a
\* synthesized FunctionCall with caller_address S, target_function T and the
\* counters of the jump's CallInfo.
C15_SynthesizedCallKnownTarget ==
    LET costs == data.instruction_costs
        st == CollectEntries(costs)
        g == ConvertToGroupedData(data)
    IN  \A p \in st.cross_boundary_jumps :
            /\ p[2] \in st.function_entries
            /\ p[2] \in DOMAIN costs =>
                   /\ p[2] \in DOMAIN GetFunctions(g)
                   /\ \E f \in DOMAIN GetFunctions(g) :
                          /\ p[1] \in Members(g, f)
                          /\ HasFunctionCall(g, f, p[1], p[2], costs[p[1]].jumps[p[2]])

\* a jump across an entry made inside a frame, its target executed since:
\* the synthesized call carries an inclusive instruction
C15_Witness ==
    LET costs == data.instruction_costs
        st == CollectEntries(costs)
    IN  \E p \in st.cross_boundary_jumps :
            /\ p[1] # p[2]
            /\ p[2] \in DOMAIN costs
            /\ costs[p[2]].self_cost >= 1
            /\ costs[p[1]].jumps[p[2]].inclusive_instructions >= 1

\* the sum of self_cost over the members of a function's instruction list
RECURSIVE SumMembers(_, _)
SumMembers(instructions, S) ==
    IF S = {} THEN 0
    ELSE LET k == CHOOSE x \in S : TRUE
         IN  instructions[k].cost.self_cost + SumMembers(instructions, S \ {k})

RECURSIVE SumFunctions(_, _)
SumFunctions(fs, S) ==
    IF S = {} THEN 0
    ELSE LET f == CHOOSE x \in S : TRUE
         IN  fs[f].total_self_instructions + SumFunctions(fs, S \ {f})

\* C16: every GroupedFunction produced by ConvertToGroupedData has
\* total_self_instructions equal to the sum of self_cost over its member
\* instructions, and total_self_instructions summed over all functions
\* equals the total instruction count of the GroupedProfilerData.
C16_SelfTotals ==
    LET g == ConvertToGroupedData(data)
        fs == GetFunctions(g)
    IN  /\ \A f \in DOMAIN fs :
              fs[f].total_self_instructions =
                  SumMembers(fs[f].instructions, DOMAIN fs[f].instructions)
        /\ SumFunctions(fs, DOMAIN fs) = g.total_instructions

\* two functions with executed instructions, one of them with two members
\* that were both executed
C16_Witness ==
    LET fs == GetFunctions(ConvertToGroupedData(data))
    IN  /\ \E f1, f2 \in DOMAIN fs :
              /\ f1 # f2
              /\ fs[f1].total_self_instructions >= 2
              /\ fs[f2].total_self_instructions >= 1
              /\ \E i, j \in DOMAIN fs[f1].instructions :
                     /\ i # j
                     /\ fs[f1].instructions[i].cost.self_cost >= 1
                     /\ fs[f1].instructions[j].cost.self_cost >= 1
        /\ \E a \in DOMAIN data.instruction_costs : data.instruction_costs[a].instr_fetches >= 1

\* C17: when address a received an InstrExecute while the call stack was
\* empty (the root edge 0 -> a has been counted), the set GetEntryPoints()
\* returns after ConvertToGroupedData contains a.
C17_EntryPoints ==
    \A a \in Addrs :
        CallEdge(data, 0, a).call_count >= 1 =>
            a \in GetEntryPoints(ConvertToGroupedData(data))

\* the position the delta encoding gives an instruction line written after
\* the address prev
DeltaPosition(prev, address) ==
    LET delta == address - prev
    IN  IF 0 < delta /\ delta <= 1000 THEN [mode |-> "+", value |-> delta]
        ELSE IF -1000 <= delta /\ delta < 0 THEN [mode |-> "-", value |-> -delta]
        ELSE IF delta = 0 THEN [mode |-> "*", value |-> 0]
        ELSE [mode |-> "0x", value |-> address]

\* the indices of the instruction lines of a block: the cost lines that do
\* not follow a calls= line
InstructionLines(lines) ==
    SortedSeq({k \in 2..Len(lines) : lines[k].kind = "cost" /\ lines[k - 1].kind # "calls"})

\* C18: in each fn= block the first instruction line carries an absolute
\* 0x address and every later instruction line is written relative to the
\* address written before it (+N, -N, * or absolute beyond 1000), also in
\* blocks that contain address 0.
C18_DeltaEncoding ==
    LET fs == GetFunctions(ConvertToGroupedData(data))
    IN  \A f \in DOMAIN fs :
            LET lines == WriteFunction(fs[f])
                il == InstructionLines(lines)
                instructions == fs[f].instructions
            IN  /\ Len(il) = Len(instructions)
                /\ \A n \in 1..Len(il) :
                       lines[il[n]].position =
                           IF n = 1
                           THEN [mode |-> "0x", value |-> instructions[1].address]
                           ELSE DeltaPosition(instructions[n - 1].address, instructions[n].address)

\* C20: for every event type, every 24-bit address and, for Call, every
\* return offset in 0..15, the word stored by the matching Profiler_Record*
\* function decodes with GetEventType / GetEventAddress / GetReturnOffset to
\* the same type, address and return offset.
C20_CodecRoundTrip ==
    codec_word # NULL =>
        /\ GetEventType(codec_word) = codec_in.type
        /\ GetEventAddress(codec_word) = codec_in.address
        /\ (codec_in.type = CALL => GetReturnOffset(codec_word) = codec_in.return_offset)

\* a Call with all address bits and all offset bits set has been encoded
C20_Witness ==
    /\ codec_word # NULL
    /\ codec_in = [type |-> CALL, address |-> Pow2_24 - 1, return_offset |-> 15]

\* C21: a failed open of the output file during a flush is not fatal:
\* WriteToFile returns false, the ProfilerData and the file are left as they
\* were, the profiler thread goes back to its loop, and unless the failed
\* flush was Stop's final one a later flush attempts the write again.
C21_OpenFailure ==
    /\ [][ (flushing # {} /\ flushing' = {} /\ write_failed') =>
              /\ data' = data
              /\ file' = file
              /\ (pc_cons = "flushing" => pc_cons' = "flush_clear") ]_vars
    /\ ((write_failed /\ pc_cons = "flush_clear") ~> (pc_cons = "loop"))
    /\ ((write_failed /\ flushing = {} /\ stop_flushes = 0) ~> (flushing # {}))

\* the profiler thread's write failed after events were processed, and
\* Stop's final flush is now attempting the write again
C21_Witness ==
    /\ write_failed
    /\ flushing = {"main"}
    /\ file = NoFile
    /\ Len(processed) > 0

\* C22: a jump edge S -> T is marked boundary-crossing only if some entry
\* point lies strictly between min(S, T) and max(S, T); a jump with S = T is
\* never marked.
C22_MarkedOnlyIfCrossing ==
    LET st == CollectEntries(data.instruction_costs)
    IN  \A p \in st.cross_boundary_jumps :
            \E e \in st.function_entries :
                /\ e > (IF p[1] < p[2] THEN p[1] ELSE p[2])
                /\ e < (IF p[1] < p[2] THEN p[2] ELSE p[1])

\* the counters of jump edge src -> tgt (all zero while the edge does not exist)
JumpEdge(d, src, tgt) ==
    IF src \in DOMAIN d.instruction_costs /\ tgt \in DOMAIN d.instruction_costs[src].jumps
    THEN d.instruction_costs[src].jumps[tgt]
    ELSE NewCallInfo

\* self_cost of address a (zero while a has no entry)
SelfCost(d, a) ==
    IF a \in DOMAIN d.instruction_costs THEN d.instruction_costs[a].self_cost ELSE 0

\* the stacks agree in depth and in every frame's callee, call site, return
\* address and call edge
SameFrames(s1, s2) ==
    /\ Len(s1) = Len(s2)
    /\ \A i \in 1..Len(s1) :
          /\ s1[i].address = s2[i].address
          /\ s1[i].caller_pc = s2[i].caller_pc
          /\ s1[i].return_address = s2[i].return_address
          /\ s1[i].call_info = s2[i].call_info

\* C23: Jump(t) at current pc p adds one to the call_count of jump edge
\* p -> t, registers the edge as active in the top frame only, sets current
\* pc to t and leaves the depth of the stack, every frame's callee, call
\* site and return address, the active-jump sets of the frames below the
\* top, all self costs and total_instructions unchanged.
C23_JumpEffect ==
    [][ Processes(JUMP) =>
          LET p == data.current_pc
              t == GetEventAddress(last_event')
              n == Len(data.call_stack)
          IN  /\ JumpEdge(data', p, t).call_count = JumpEdge(data, p, t).call_count + 1
              /\ data'.current_pc = t
              /\ SameFrames(data'.call_stack, data.call_stack)
              /\ \A i \in 1..(n - 1) :
                     data'.call_stack[i].jump_refs = data.call_stack[i].jump_refs
              /\ (n > 0 => data'.call_stack[n].jump_refs =
                               data.call_stack[n].jump_refs \cup {<<p, t>>})
              /\ \A a \in DOMAIN data'.instruction_costs : SelfCost(data', a) = SelfCost(data, a)
              /\ data'.total_instructions = data.total_instructions ]_vars

\* Call(1, 0), Jump(2), Call(3, 0), Jump(0): each frame holds its own jump
C23_Witness ==
    /\ nsteps = 4
    /\ last_event = RecordJumpWord(0)
    /\ Len(data.call_stack) = 2
    /\ data.call_stack[1].jump_refs = {<<1, 2>>}
    /\ data.call_stack[2].jump_refs = {<<3, 0>>}
    /\ JumpEdge(data, 3, 0).call_count = 1

\* the number of frames whose call edge is e / in which jump edge e is active
FramesCalling(stack, e) == Cardinality({i \in 1..Len(stack) : stack[i].call_info = e})
FramesJumping(stack, e) == Cardinality({i \in 1..Len(stack) : e \in stack[i].jump_refs})

\* every call edge and every jump edge gained, in the given inclusive
\* counter, one per frame of stack that holds it
Propagated(d1, d2, stack, field) ==
    \A s \in DOMAIN d2.instruction_costs :
        /\ \A t \in DOMAIN d2.instruction_costs[s].calls :
              CallEdge(d2, s, t)[field] =
                  CallEdge(d1, s, t)[field] + FramesCalling(stack, <<s, t>>)
        /\ \A t \in DOMAIN d2.instruction_costs[s].jumps :
              JumpEdge(d2, s, t)[field] =
                  JumpEdge(d1, s, t)[field] + FramesJumping(stack, <<s, t>>)

\* C24: each InstrExecute adds one to inclusive_instructions for the call
\* edge of every frame on the stack, a frame synthesized by this event
\* included, and one for every jump edge registered as active in each of
\* those frames.
C24_InclusivePropagation ==
    [][ Processes(INSTR_EXECUTE) =>
          Propagated(data, data', data'.call_stack, "inclusive_instructions") ]_vars

\* Call(1, 0), Jump(2), Call(3, 0), InstrExecute(3): two frames, a jump
\* active in the lower one
C24_Witness ==
    /\ nsteps = 4
    /\ last_event = RecordInstructionExecuteWord(3)
    /\ Len(data.call_stack) = 2
    /\ data.call_stack[1].jump_refs = {<<1, 2>>}
    /\ JumpEdge(data, 1, 2).inclusive_instructions = 1
    /\ CallEdge(data, 0, 1).inclusive_instructions = 1
    /\ CallEdge(data, 2, 3).inclusive_instructions = 1

\* the per-address counter of address a (zero while a has no entry)
SelfField(d, a, field) ==
    IF a \in DOMAIN d.instruction_costs THEN d.instruction_costs[a][field] ELSE 0

\* the effect C25 gives an access event counted in self_field / incl_field
AccessEffect(self_field, incl_field) ==
    /\ \A a \in DOMAIN data'.instruction_costs :
          /\ SelfField(data', a, self_field) =
                 SelfField(data, a, self_field)
                     + (IF a = data.current_pc /\ data.current_pc # 0 THEN 1 ELSE 0)
          /\ SelfCost(data', a) = SelfCost(data, a)
    /\ Propagated(data, data', data.call_stack, incl_field)
    /\ data'.total_instructions = data.total_instructions
    /\ data'.current_pc = data.current_pc
    /\ data'.call_stack = data.call_stack

\* C25: a DataRead, DataWrite or InstrFetch event adds one to the matching
\* per-address counter at current pc (not at the event's address, and
\* nowhere when current pc is 0), adds one to the matching inclusive counter
\* of every frame's call edge and of every active jump edge, and leaves
\* self costs, total_instructions, current pc and the call stack unchanged.
C25_AccessEffect ==
    [][ /\ Processes(DATA_READ) => AccessEffect("data_reads", "inclusive_data_reads")
        /\ Processes(DATA_WRITE) => AccessEffect("data_writes", "inclusive_data_writes")
        /\ Processes(INSTR_READ) => AccessEffect("instr_fetches", "inclusive_instr_fetches") ]_vars

\* InstrExecute(1), Jump(2), a DataWrite whose own address is not 2: counted
\* at pc 2, in the root edge and in the active jump
C25_Witness ==
    /\ nsteps = 3
    /\ last_event = RecordDataWriteWord(MaxAddr)
    /\ data.current_pc = 2
    /\ SelfField(data, 2, "data_writes") = 1
    /\ SelfField(data, MaxAddr, "data_writes") = 0
    /\ CallEdge(data, 0, 1).inclusive_data_writes = 1
    /\ JumpEdge(data, 1, 2).inclusive_data_writes = 1

\* the function of grouped data g whose instruction list holds address a
OwnerOf(g, a) == CHOOSE f \in DOMAIN GetFunctions(g) : a \in Members(g, f)

\* C26: ConvertToGroupedData puts every address of the cost table in the
\* function whose entry is the largest entry point <= the address, or in a
\* function keyed by the address itself when no entry point is <= it.
C26_OwningFunction ==
    LET g == ConvertToGroupedData(data)
        entries == CollectEntries(data.instruction_costs).function_entries
    IN  \A a \in DOMAIN data.instruction_costs :
            LET below == {e \in entries : e <= a}
                f == IF below = {} THEN a
                     ELSE CHOOSE e \in below : \A x \in below : x <= e
            IN  /\ f \in DOMAIN GetFunctions(g)
                /\ a \in Members(g, f)
                /\ GetFunctions(g)[f].entry_address = f

\* an address with two entries below it that is no entry itself, and an
\* address with no entry at or below it
C26_Witness ==
    LET entries == CollectEntries(data.instruction_costs).function_entries
    IN  /\ \E a \in DOMAIN data.instruction_costs :
              /\ a \notin entries
              /\ Cardinality({e \in entries : e <= a}) >= 2
        /\ \E b \in DOMAIN data.instruction_costs : {e \in entries : e <= b} = {}

\* the number of FunctionCalls of function f made at s to t with the
\* counters of info
CountFunctionCalls(g, f, s, t, info) ==
    Cardinality({k \in DOMAIN GetFunctions(g)[f].calls :
        LET fc == GetFunctions(g)[f].calls[k]
        IN  /\ fc.caller_address = s
            /\ fc.target_function = t
            /\ fc.call_count = info.call_count
            /\ fc.inclusive_instructions = info.inclusive_instructions
            /\ fc.inclusive_instr_fetches = info.inclusive_instr_fetches
            /\ fc.inclusive_data_reads = info.inclusive_data_reads
            /\ fc.inclusive_data_writes = info.inclusive_data_writes})

\* the call edges of the cost table
CallPairs(costs) == UNION {{<<a, t>> : t \in DOMAIN costs[a].calls} : a \in DOMAIN costs}

\* C27 as stated: for every recorded call edge S -> T, whether or not T is a
\* key of the cost table, the GroupedFunction owning S holds exactly one
\* FunctionCall with caller_address S, the function owning T (T itself, a
\* call target being an entry) as target_function and the counters of the
\* edge's CallInfo.
C27_CallEdgeEmitted ==
    LET costs == data.instruction_costs
        g == ConvertToGroupedData(data)
    IN  \A p \in CallPairs(costs) :
            CountFunctionCalls(g, OwnerOf(g, p[1]), p[1], p[2], costs[p[1]].calls[p[2]]) = 1

\* C27 amended: for every recorded call edge S -> T whose target T is a key
\* of the cost table, the GroupedFunction owning S holds a FunctionCall with
\* caller_address S, target_function T and the counters of the edge's
\* CallInfo: exactly one, or two when a boundary-crossing jump S -> T carries
\* the same counters. When T is no key of the cost table, the function
\* owning S holds no FunctionCall made at S to T.
C27_CallEdgeEmittedKnownTarget ==
    LET costs == data.instruction_costs
        g == ConvertToGroupedData(data)
        cross == CollectEntries(costs).cross_boundary_jumps
    IN  \A p \in CallPairs(costs) :
            LET f == OwnerOf(g, p[1])
                info == costs[p[1]].calls[p[2]]
            IN  IF p[2] \in DOMAIN costs
                THEN CountFunctionCalls(g, f, p[1], p[2], info) =
                         1 + (IF p \in cross /\ costs[p[1]].jumps[p[2]] = info THEN 1 ELSE 0)
                ELSE \A k \in DOMAIN GetFunctions(g)[f].calls :
                         ~ /\ GetFunctions(g)[f].calls[k].caller_address = p[1]
                           /\ GetFunctions(g)[f].calls[k].target_function = p[2]

\* a call made inside a frame whose target has executed since, next to a
\* call edge whose target never got an entry
C27_Witness ==
    LET costs == data.instruction_costs
    IN  /\ \E p \in CallPairs(costs) :
              /\ p[1] # 0
              /\ p[2] \in DOMAIN costs
              /\ costs[p[1]].calls[p[2]].inclusive_instructions >= 1
        /\ \E q \in CallPairs(costs) : q[2] \notin DOMAIN costs

\* C28: in the GroupedProfilerData ConvertToGroupedData produces, the
\* target_function of every FunctionCall, real or synthesized, is a key of
\* the functions map.
C28_TargetsResolve ==
    LET fs == GetFunctions(ConvertToGroupedData(data))
    IN  \A f \in DOMAIN fs :
            \A k \in DOMAIN fs[f].calls : fs[f].calls[k].target_function \in DOMAIN fs

\* a real and a synthesized FunctionCall exist while some call edge's target
\* has no entry in the cost table
C28_Witness ==
    LET costs == data.instruction_costs
        g == ConvertToGroupedData(data)
        st == CollectEntries(costs)
    IN  /\ \E p \in st.cross_boundary_jumps :
              p[2] \in DOMAIN costs /\ p \notin CallPairs(costs)
        /\ \E p \in CallPairs(costs) : p[2] \in DOMAIN costs
        /\ \E q \in CallPairs(costs) : q[2] \notin DOMAIN costs

\* the sum of value j over the lines of indices S
RECURSIVE SumValues(_, _, _)
SumValues(lines, S, j) ==
    IF S = {} THEN 0
    ELSE LET k == CHOOSE x \in S : TRUE
         IN  lines[k].values[j] + SumValues(lines, S \ {k}, j)

\* C29: every instruction cost line carries cycles = self_cost +
\* 3 * (instr_fetches + data_reads + data_writes) next to the self_cost, the
\* data reads and the data writes of its address, and the four values of the
\* summary line are the sums of the same values over all instruction cost
\* lines of the body, the summary's instructions being total_instructions.
C29_CostLines ==
    LET g == ConvertToGroupedData(data)
        fs == GetFunctions(g)
        costs == data.instruction_costs
        out == WriteToFile(g)
        il == InstructionLines(out)
        summary == {k \in DOMAIN out : out[k].kind = "summary"}
    IN  /\ \A f \in DOMAIN fs :
               LET lines == WriteFunction(fs[f])
                   fl == InstructionLines(lines)
               IN  /\ Len(fl) = Len(fs[f].instructions)
                   /\ \A n \in DOMAIN fl :
                          LET c == costs[fs[f].instructions[n].address]
                          IN  lines[fl[n]].values =
                                  << c.self_cost + 3 * (c.instr_fetches + c.data_reads + c.data_writes),
                                     c.self_cost, c.data_reads, c.data_writes >>
        /\ Cardinality(summary) = 1
        /\ \A k \in summary :
               /\ \A j \in 1..4 : out[k].values[j] = SumValues(out, {il[n] : n \in DOMAIN il}, j)
               /\ out[k].values[2] = g.total_instructions

\* a file of two fn= blocks with a call triple, an instruction with fetches
\* and a data access
C29_Witness ==
    LET g == ConvertToGroupedData(data)
        costs == data.instruction_costs
        out == WriteToFile(g)
    IN  /\ Cardinality(DOMAIN GetFunctions(g)) >= 2
        /\ \E k \in DOMAIN out : out[k].kind = "calls"
        /\ \E a \in DOMAIN costs : costs[a].instr_fetches >= 1 /\ costs[a].self_cost >= 1
        /\ \E a \in DOMAIN costs : costs[a].data_reads + costs[a].data_writes >= 1

\* the three lines a FunctionCall is written as
CallTriple(fc) ==
    << [kind |-> "cfn", hex |-> fc.target_function],
       [kind |-> "calls", count |-> fc.call_count, hex |-> fc.target_function],
       [kind |-> "cost",
        position |-> [mode |-> "0x", value |-> fc.caller_address],
        values |-> << fc.inclusive_instructions
                        + 3 * (fc.inclusive_instr_fetches + fc.inclusive_data_reads
                               + fc.inclusive_data_writes),
                      fc.inclusive_instructions,
                      fc.inclusive_data_reads,
                      fc.inclusive_data_writes >>] >>

\* C30: in the fn= block of every GroupedFunction each FunctionCall is
\* written exactly once, as a cfn= / calls= / cost-line triple lying after
\* the cost line of the instruction at its caller_address and before the
\* cost line of the next instruction, and the block holds no other triple.
C30_CallsSerializedOnce ==
    LET fs == GetFunctions(ConvertToGroupedData(data))
    IN  \A f \in DOMAIN fs :
            LET lines == WriteFunction(fs[f])
                fl == InstructionLines(lines)
                calls == fs[f].calls
                instructions == fs[f].instructions
                Segment(n) == (fl[n] + 1) ..
                              (IF n < Len(fl) THEN fl[n + 1] - 1 ELSE Len(lines) - 1)
            IN  /\ Len(fl) = Len(instructions)
                /\ Cardinality({j \in DOMAIN lines : lines[j].kind = "cfn"}) = Len(calls)
                /\ \A k \in DOMAIN calls :
                       LET at == {n \in DOMAIN instructions :
                                      instructions[n].address = calls[k].caller_address}
                       IN  /\ Cardinality(at) = 1
                           /\ \A n \in at :
                                  Cardinality({j \in Segment(n) :
                                      /\ j + 2 \in Segment(n)
                                      /\ SubSeq(lines, j, j + 2) = CallTriple(calls[k])})
                                  = Cardinality({i \in DOMAIN calls : calls[i] = calls[k]})

\* a function with two FunctionCalls made at one address, and a function
\* whose call is made at an instruction that is not its last
C30_Witness ==
    LET fs == GetFunctions(ConvertToGroupedData(data))
    IN  /\ \E f \in DOMAIN fs :
              \E i, k \in DOMAIN fs[f].calls :
                  i # k /\ fs[f].calls[i].caller_address = fs[f].calls[k].caller_address
        /\ \E f \in DOMAIN fs :
              \E k \in DOMAIN fs[f].calls :
                  \E n \in DOMAIN fs[f].instructions :
                      /\ n < Len(fs[f].instructions)
                      /\ fs[f].instructions[n].address = fs[f].calls[k].caller_address

\* the indices of the caller-address lines of a block: the cost lines that
\* follow a calls= line
CallerLines(lines) ==
    {k \in 2..Len(lines) : lines[k].kind = "cost" /\ lines[k - 1].kind = "calls"}

\* the address a cost line of a block stands for: the instruction address for
\* an instruction line, the caller address for a caller line
RECURSIVE AddressAt(_, _, _)
AddressAt(lines, func, k) ==
    IF k \in CallerLines(lines)
    THEN AddressAt(lines, func, k - 3)
    ELSE func.instructions[Cardinality({j \in 2..k :
             lines[j].kind = "cost" /\ lines[j - 1].kind # "calls"})].address

\* C31 as stated: the caller-address cost line that follows a calls= line is
\* written with the scheme of the instruction lines, relative to the last
\* address written in the block.
C31_CallerLineDelta ==
    LET fs == GetFunctions(ConvertToGroupedData(data))
    IN  \A f \in DOMAIN fs :
            LET lines == WriteFunction(fs[f])
            IN  \A k \in CallerLines(lines) :
                    lines[k].position =
                        WritePosition(AddressAt(lines, fs[f], k - 3), AddressAt(lines, fs[f], k))

\* C31 amended: the caller-address cost line that follows a calls= line is
\* always written as the absolute 0x caller address, and the cursor it leaves
\* is that address: the instruction line that follows it is written
\* relative to the caller address (absolute when the caller address is 0 or
\* farther than 1000 away).
C31_CallerLineAbsolute ==
    LET fs == GetFunctions(ConvertToGroupedData(data))
    IN  \A f \in DOMAIN fs :
            LET lines == WriteFunction(fs[f])
            IN  \A k \in CallerLines(lines) :
                    /\ lines[k].position = [mode |-> "0x", value |-> AddressAt(lines, fs[f], k)]
                    /\ \E i \in DOMAIN fs[f].calls :
                           fs[f].calls[i].caller_address = AddressAt(lines, fs[f], k)
                    /\ (k < Len(lines) /\ lines[k + 1].kind = "cost") =>
                           lines[k + 1].position =
                               WritePosition(AddressAt(lines, fs[f], k),
                                             AddressAt(lines, fs[f], k + 1))

\* a caller line at a non-zero address followed by an instruction line
C31_Witness ==
    LET fs == GetFunctions(ConvertToGroupedData(data))
    IN  \E f \in DOMAIN fs :
            LET lines == WriteFunction(fs[f])
            IN  \E k \in CallerLines(lines) :
                    /\ AddressAt(lines, fs[f], k) # 0
                    /\ k < Len(lines)
                    /\ lines[k + 1].kind = "cost"

\* C32: when a second thread calls Stop while the producer is blocked in
\* GetEmptyBuffer, or has just found the empty queue empty with running true
\* and is about to block, the producer is woken and GetEmptyBuffer returns.
C32_StopWakesProducer ==
    (pc_main \in {"ge_wait", "ge_blocked"} /\ ~running) ~> ~InGetEmptyBuffer

\* the word the Profiler_Record* function of a type stores for an address
\* (with return offset 0 for Call)
RecordedWord(type, address) ==
    CASE type = INSTR_EXECUTE -> RecordInstructionExecuteWord(address)
      [] type = JUMP -> RecordJumpWord(address)
      [] type = CALL -> RecordCallWord(address, 0)
      [] type = RETURN -> RecordReturnWord(address)
      [] type = DATA_READ -> RecordDataReadWord(address)
      [] type = DATA_WRITE -> RecordDataWriteWord(address)
      [] type = INSTR_READ -> RecordInstrReadWord(address)

\* C33: for every EventType t and every 24-bit address a, MakeEvent(t, a)
\* decodes with GetEventType to t and with GetEventAddress to a, and is the
\* word the matching Profiler_Record* function stores for a.
C33_MakeEventRoundTrip ==
    codec_word # NULL =>
        /\ GetEventType(codec_word) = codec_in.type
        /\ GetEventAddress(codec_word) = codec_in.address
        /\ codec_word = RecordedWord(codec_in.type, codec_in.address)

\* the stack holds a synthesized top-level frame: the frame
\* ProcessInstructionExecute pushes on an empty stack, which is the bottom
\* frame and the only one whose return_address is 0
HasSynthesizedFrame(stack) == stack # << >> /\ stack[1].return_address = 0

PlacesOf(b) ==
    Cardinality({i \in DOMAIN empty_buffers : empty_buffers[i] = b})
    + Cardinality({i \in DOMAIN filled_buffers : filled_buffers[i] = b})
    + (IF current_buffer = b /\ pc_main \in {"run", "switch"} THEN 1 ELSE 0)
    + (IF cons_buffer = b /\ pc_cons \in {"process", "return_buf"} THEN 1 ELSE 0)

\* C35 as stated: in every state between Start and Stop (running_ is true)
\* each pool buffer is in exactly one place.
C35_BufferConservation ==
    running => \A b \in Buffers : PlacesOf(b) = 1

\* C35 amended: while running_ is true and the client buffer manager exists
\* (from Profiler_Initialize to the start of Profiler_Shutdown) each pool
\* buffer is in exactly one place; once CleanupClient has destroyed the
\* manager each buffer is in at most one place, and a buffer in none is the
\* former current buffer, which held no event.
C35_BufferConservationWhileClient ==
    running =>
        \A b \in Buffers :
            IF pc_main \in {"run", "switch", "get_empty", "ge_wait", "ge_blocked"}
            THEN PlacesOf(b) = 1
            ELSE /\ PlacesOf(b) <= 1
                 /\ PlacesOf(b) = 0 =>
                        /\ buffer_pool[b].count = 0
                        /\ profiler_current_buffer_ptr = [buf |-> b, off |-> 0]

\* the producer records into a buffer it got back from the consumer while
\* the consumer processes the other one
C35_Witness ==
    /\ running
    /\ pc_main = "run"
    /\ switch_calls >= 2
    /\ current_buffer = 1
    /\ pc_cons = "process"
    /\ cons_buffer = 2

\* C36: between Profiler_Initialize and Profiler_Shutdown, whenever a
\* Profiler_Record* call begins, profiler_current_buffer_ptr points into the
\* events array of the buffer the producer holds, strictly below
\* profiler_buffer_end_ptr = events + BUFFER_SIZE, and that buffer is in no
\* queue and not in the consumer's hands.
C36_CursorInHeldBuffer ==
    pc_main = "run" =>
        /\ current_buffer \in Buffers
        /\ profiler_current_buffer_ptr.buf = current_buffer
        /\ profiler_current_buffer_ptr.off \in 0..(BUFFER_SIZE - 1)
        /\ profiler_buffer_end_ptr = [buf |-> current_buffer, off |-> BUFFER_SIZE]
        /\ \A i \in DOMAIN empty_buffers : empty_buffers[i] # current_buffer
        /\ \A i \in DOMAIN filled_buffers : filled_buffers[i] # current_buffer
        /\ pc_cons \in {"process", "return_buf"} => cons_buffer # current_buffer

\* a Record call begins at the last slot of a buffer the producer got back
\* from the consumer, the other buffer waiting in the filled queue
C36_Witness ==
    /\ pc_main = "run"
    /\ switch_calls >= 2
    /\ current_buffer = 1
    /\ profiler_current_buffer_ptr = [buf |-> 1, off |-> BUFFER_SIZE - 1]
    /\ filled_buffers = << 2 >>

\* the call edges and the jump edges of a cost table, as records
AllEdges(costs) ==
    UNION {{costs[a].calls[t] : t \in DOMAIN costs[a].calls} \cup
           {costs[a].jumps[t] : t \in DOMAIN costs[a].jumps} : a \in DOMAIN costs}

\* C37: after any sequence of events the inclusive_instructions of every
\* call edge and of every jump edge is at most total_instructions, also when
\* several live frames reference the same edge.
C37_InclusiveBounded ==
    \A e \in AllEdges(data.instruction_costs) :
        e.inclusive_instructions <= data.total_instructions

\* the ProfilerData that processing the first n of the events alone builds
RECURSIVE Replay(_, _)
Replay(events, n) ==
    IF n = 0 THEN NewProfilerData
    ELSE ProcessEvent(Replay(events, n - 1), events[n])

C39_FlushBeforeTermination ==
    pc_sig = "terminated" => ~flush_pending

\* the four inclusive counters of an edge
InclusiveOf(info) ==
    << info.inclusive_instructions, info.inclusive_instr_fetches,
       info.inclusive_data_reads, info.inclusive_data_writes >>

\* C40: the inclusive counters of a call edge or a jump edge change only in
\* the processing of an event during which a frame of the call stack
\* references the edge (as its call_info or in its jump_refs); with no such
\* frame, after the last one was popped, they stay as they are.
C40_InclusiveOnlyWhileActive ==
    [][ (nsteps' = nsteps + 1) =>
            \A s \in DOMAIN data'.instruction_costs :
                /\ \A t \in DOMAIN data'.instruction_costs[s].calls :
                       InclusiveOf(CallEdge(data', s, t)) # InclusiveOf(CallEdge(data, s, t)) =>
                           FramesCalling(data'.call_stack, <<s, t>>) >= 1
                /\ \A t \in DOMAIN data'.instruction_costs[s].jumps :
                       InclusiveOf(JumpEdge(data', s, t)) # InclusiveOf(JumpEdge(data, s, t)) =>
                           FramesJumping(data'.call_stack, <<s, t>>) >= 1 ]_vars

\* Call(1, 0) at pc 0, InstrExecute(1), Return(2), InstrExecute(2): the edge
\* 0 -> 1 keeps the one instruction it got while its frame was live
C40_Witness ==
    /\ nsteps = 4
    /\ last_event = RecordInstructionExecuteWord(2)
    /\ data.total_instructions = 2
    /\ Len(data.call_stack) = 1
    /\ data.call_stack[1].call_info = <<0, 2>>
    /\ CallEdge(data, 0, 1).inclusive_instructions = 1
    /\ CallEdge(data, 0, 2).inclusive_instructions = 1

====
